---- MODULE Spec2Model ----
(***************************************************************************)
(* A model of the clinic agent's conversation core: the Redis-backed       *)
(* session store (app/core/context.py), the intent recogniser              *)
(* (app/core/intent.py) and the orchestrator's turn                        *)
(* (app/core/orchestrator.py), with the backend client and the two         *)
(* language-model calls as the environment.                                *)
(***************************************************************************)
EXTENDS Integers, Sequences, FiniteSets, TLC

(***************************************************************************)
(* Bounds of the model.                                                    *)
(***************************************************************************)
\* how many identifiers uuid4 hands out in one behaviour
MaxSessions == 2
\* how many messages are appended, over all sessions, in SpecHistory
MaxAppends == 23
\* how many messages are appended, over all sessions, in SpecStore
MaxStoreAppends == 2
\* how many times the clock moves on in SpecExpiry
MaxTicks == 3
\* messages stored by the calls of a dialogue before a further call is made
MaxEarlier == 2

(***************************************************************************)
(* Program constants.                                                      *)
(***************************************************************************)
\* context.py:86-87, "keep last 20 messages"
HistoryLimit == 20
\* context.py:19, self.context_ttl, in seconds
context_ttl == 60 * 60 * 24
\* the clock moves in steps of half a session lifetime
TickStep == context_ttl \div 2
\* the time of a call that was never made
Never == 0 - 1

\* the identifiers uuid4 can return; uuid4 is modelled as never returning an
\* identifier twice
SessionIds == 1 .. MaxSessions
\* session_id = None (or the empty string): `not session_id` holds
NoSessionId == 0
\* a session id string that no create_session call ever returned
ForeignId == -1

\* the identities the callers of the service have
Callers == {[user_id |-> "u1", user_type |-> "doctor"],
            [user_id |-> "u2", user_type |-> "patient"]}
\* a missing user_id / user_type (None or ""): `not user_id` holds
Missing == ""
\* Python's None (JSON null) as a value: no string of the model equals it
None == "None"

\* a Python dict is a function from its keys; {} has the empty domain
EmptyDict == [k \in {} |-> k]

\* dict[key] = value
DictSet(d, key, value) ==
    [k \in (DOMAIN d) \cup {key} |-> IF k = key THEN value ELSE d[k]]

VARIABLES
    redis,      \* the Redis keyspace: key -> [value, expire_at]
    now,        \* the clock, in seconds
    allocated,  \* the identifiers uuid4 has returned so far
    appended,   \* per session id, every message appended to it (history of the run)
    touched,    \* per session id, when a call last created, read or wrote the session
    ret,        \* the last store call and what it returned
    turn,       \* the process_message call in progress
    clients     \* per concurrent client of the store, the call it is in

vars == <<redis, now, allocated, appended, touched, ret, turn, clients>>

\* the store as the operators below see it
World ==
    [redis |-> redis, now |-> now, allocated |-> allocated, appended |-> appended,
     touched |-> touched]

SetWorld(w) ==
    /\ redis' = w.redis
    /\ now' = w.now
    /\ allocated' = w.allocated
    /\ appended' = w.appended
    /\ touched' = w.touched

(***************************************************************************)
(* Redis commands used by ContextManager.                                  *)
(***************************************************************************)
\* f"session:{session_id}"
\* a key that leaves the session id out: "session:"
KeyWithoutId(session_id) == <<"session", NoSessionId>>

Key(session_id) == <<"session", session_id>>

\* json.dumps / json.loads of a session record: a string that holds the record
json_dumps(v) == [json |-> v]
json_loads(s) == s.json

\* an EXISTS of a store that keeps its keys for ever
RedisExistsForever(w, key) == key \in DOMAIN w.redis

\* EXISTS key: the key is set and has not expired
RedisExists(w, key) ==
    /\ key \in DOMAIN w.redis
    /\ w.now < w.redis[key].expire_at

\* a SETEX that leaves a key that is set as it is (SET with NX)
RedisSetexIfAbsent(w, key, ttl, value) ==
    IF key \in DOMAIN w.redis
    THEN w
    ELSE [w EXCEPT !.redis =
            [k \in (DOMAIN w.redis) \cup {key} |->
                IF k = key THEN [value |-> value, expire_at |-> w.now + ttl]
                ELSE w.redis[k]]]

\* SETEX key ttl value
RedisSetex(w, key, ttl, value) ==
    [w EXCEPT !.redis =
        [k \in (DOMAIN w.redis) \cup {key} |->
            IF k = key THEN [value |-> value, expire_at |-> w.now + ttl]
            ELSE w.redis[k]]]

\* EXPIRE key ttl
RedisExpire(w, key, ttl) ==
    IF RedisExists(w, key)
    THEN [w EXCEPT !.redis[key].expire_at = w.now + ttl]
    ELSE w

\* DEL key: the number of keys removed
RedisDelete(w, key) ==
    [w |-> [w EXCEPT !.redis = [k \in (DOMAIN w.redis) \ {key} |-> w.redis[k]]],
     n |-> IF RedisExists(w, key) THEN 1 ELSE 0]

(***************************************************************************)
(* ContextManager                                                          *)
(***************************************************************************)
\* an identifier source that hands out the same identifier again
uuid4_repeating(used) == CHOOSE id \in SessionIds : \A other \in SessionIds : id <= other

\* uuid.uuid4(): an identifier not handed out before; the identifiers are
\* interchangeable, so they are taken in order
uuid4(used) == CHOOSE id \in SessionIds \ used : \A other \in SessionIds \ used : id <= other

\* what get_session's caller holds when the session is not found (None)
NoSession ==
    [user_id |-> Missing, user_type |-> Missing, created_at |-> -1,
     history |-> <<>>, metadata |-> EmptyDict]

\* create_session; uuid is the value uuid4 returned
create_session(w, uuid, user_id, user_type) ==
    LET session_data ==
            [user_id |-> user_id, user_type |-> user_type, created_at |-> w.now,
             history |-> <<>>, metadata |-> EmptyDict]
        w1 == RedisSetex(w, Key(uuid), context_ttl, json_dumps(session_data))
    IN  [w |-> [w1 EXCEPT !.allocated = @ \cup {uuid}, !.touched[uuid] = w.now],
         session_id |-> uuid]

\* a get_session without the expire of line 49
get_session_without_expire(w, session_id) ==
    IF ~RedisExists(w, Key(session_id))
    THEN [w |-> w, found |-> FALSE, data |-> NoSession]
    ELSE [w |-> [w EXCEPT !.touched[session_id] = w.now],
          found |-> TRUE,
          data |-> json_loads(w.redis[Key(session_id)].value)]

\* get_session: the record, and the TTL refreshed
get_session(w, session_id) ==
    IF ~RedisExists(w, Key(session_id))
    THEN [w |-> w, found |-> FALSE, data |-> NoSession]
    ELSE [w |-> [RedisExpire(w, Key(session_id), context_ttl)
                    EXCEPT !.touched[session_id] = w.now],
          found |-> TRUE,
          data |-> json_loads(w.redis[Key(session_id)].value)]

\* an update_session that writes without the exists check of line 56
update_session_upsert(w, session_id, session_data) ==
    [w |-> [RedisSetex(w, Key(session_id), context_ttl, json_dumps(session_data))
              EXCEPT !.touched[session_id] = w.now],
     ok |-> TRUE]

\* update_session
update_session(w, session_id, session_data) ==
    IF ~RedisExists(w, Key(session_id))
    THEN [w |-> w, ok |-> FALSE]
    ELSE [w |-> [RedisSetex(w, Key(session_id), context_ttl, json_dumps(session_data))
                    EXCEPT !.touched[session_id] = w.now],
          ok |-> TRUE]

\* a history that is never cut
TrimHistoryNever(history) == history

\* a trim that keeps the first 20 messages, history[:20]
TrimHistoryKeepOldest(history) ==
    IF Len(history) > HistoryLimit
    THEN SubSeq(history, 1, HistoryLimit)
    ELSE history

\* history[-20:] when the history is longer than 20
TrimHistory(history) ==
    IF Len(history) > HistoryLimit
    THEN SubSeq(history, Len(history) - HistoryLimit + 1, Len(history))
    ELSE history

\* add_message_to_history
add_message_to_history(w, session_id, role, content) ==
    LET g == get_session(w, session_id)
        message == [role |-> role, content |-> content, timestamp |-> w.now]
        history == TrimHistory(Append(g.data.history, message))
        u == update_session(g.w, session_id, [g.data EXCEPT !.history = history])
    IN  IF ~g.found
        THEN [w |-> g.w, ok |-> FALSE]
        ELSE [w |-> IF u.ok
                    THEN [u.w EXCEPT !.appended[session_id] = Append(@, message)]
                    ELSE u.w,
              ok |-> u.ok]

\* get_history
get_history(w, session_id) ==
    LET g == get_session(w, session_id)
    IN  [w |-> g.w, history |-> IF g.found THEN g.data.history ELSE <<>>]

\* a set_metadata that replaces the metadata by the one key it is given
set_metadata_replacing(w, session_id, key, value) ==
    LET g == get_session(w, session_id)
        u == update_session(g.w, session_id,
                [g.data EXCEPT !.metadata = DictSet(EmptyDict, key, value)])
    IN  IF ~g.found
        THEN [w |-> g.w, ok |-> FALSE]
        ELSE [w |-> u.w, ok |-> u.ok]

\* a set_metadata that stamps the record with the time of the write
set_metadata_restamping(w, session_id, key, value) ==
    LET g == get_session(w, session_id)
        u == update_session(g.w, session_id,
                [g.data EXCEPT !.metadata = DictSet(g.data.metadata, key, value),
                               !.created_at = w.now])
    IN  IF ~g.found
        THEN [w |-> g.w, ok |-> FALSE]
        ELSE [w |-> u.w, ok |-> u.ok]

\* set_metadata
set_metadata(w, session_id, key, value) ==
    LET g == get_session(w, session_id)
        u == update_session(g.w, session_id,
                [g.data EXCEPT !.metadata = DictSet(g.data.metadata, key, value)])
    IN  IF ~g.found
        THEN [w |-> g.w, ok |-> FALSE]
        ELSE [w |-> u.w, ok |-> u.ok]

\* get_metadata: the stored value, or None when the session or the key is missing
get_metadata(w, session_id, key) ==
    LET g == get_session(w, session_id)
    IN  [w |-> g.w,
         value |-> IF g.found /\ key \in DOMAIN g.data.metadata
                   THEN g.data.metadata[key]
                   ELSE None]

\* a delete_session that reports success whatever DEL removed
delete_session_unchecked(w, session_id) ==
    LET d == RedisDelete(w, Key(session_id))
    IN  [w |-> d.w, ok |-> TRUE]

\* dict.update(other)
DictUpdate(d, other) ==
    [k \in (DOMAIN d) \cup (DOMAIN other) |-> IF k \in DOMAIN other THEN other[k] ELSE d[k]]

\* POST /sessions, routes.py:59-66: create_session, and the metadata of the request,
\* when it has any, merged into the new session
create_session_route(w, uuid, user_id, user_type, metadata) ==
    LET c == create_session(w, uuid, user_id, user_type)
        g == get_session(c.w, c.session_id)
        u == update_session(g.w, c.session_id,
                [g.data EXCEPT !.metadata = DictUpdate(@, metadata)])
    IN  IF metadata = EmptyDict THEN c
        ELSE IF ~g.found THEN [w |-> g.w, session_id |-> c.session_id]
        ELSE [w |-> u.w, session_id |-> c.session_id]

\* delete_session
delete_session(w, session_id) ==
    LET d == RedisDelete(w, Key(session_id))
    IN  [w |-> d.w, ok |-> d.n > 0]

(***************************************************************************)
(* Python strings, as sequences of characters.                             *)
(***************************************************************************)
UpperCase == << "A", "B", "C", "D", "E", "F", "G", "H", "I", "J", "K", "L", "M",
                "N", "O", "P", "Q", "R", "S", "T", "U", "V", "W", "X", "Y", "Z" >>
LowerCase == << "a", "b", "c", "d", "e", "f", "g", "h", "i", "j", "k", "l", "m",
                "n", "o", "p", "q", "r", "s", "t", "u", "v", "w", "x", "y", "z" >>

LowerChar(c) ==
    IF \E i \in 1 .. Len(UpperCase) : UpperCase[i] = c
    THEN LowerCase[CHOOSE i \in 1 .. Len(UpperCase) : UpperCase[i] = c]
    ELSE c

\* str.lower()
Lower(s) == [i \in 1 .. Len(s) |-> LowerChar(s[i])]

\* s[i:i+len(sub)] == sub, with i counted from 1
OccursAt(s, sub, i) ==
    /\ i + Len(sub) - 1 <= Len(s)
    /\ SubSeq(s, i, i + Len(sub) - 1) = sub

\* sub in s
Contains(s, sub) == \E i \in 1 .. Len(s) + 1 : OccursAt(s, sub, i)

\* s.find(sub), counted from 1; 0 when sub does not occur
Find(s, sub) ==
    IF Contains(s, sub)
    THEN CHOOSE i \in 1 .. Len(s) + 1 :
            /\ OccursAt(s, sub, i)
            /\ \A j \in 1 .. i - 1 : ~OccursAt(s, sub, j)
    ELSE 0

\* s.split(): the maximal runs of non-blank characters, in order
RECURSIVE SplitFrom(_, _, _)
SplitFrom(s, i, word) ==
    IF i > Len(s)
    THEN IF word = <<>> THEN <<>> ELSE <<word>>
    ELSE IF s[i] = " "
         THEN IF word = <<>> THEN SplitFrom(s, i + 1, <<>>)
              ELSE <<word>> \o SplitFrom(s, i + 1, <<>>)
         ELSE SplitFrom(s, i + 1, Append(word, s[i]))

Split(s) == SplitFrom(s, 1, <<>>)

\* s[pos:], with pos counted from 1
From(s, pos) == SubSeq(s, pos, Len(s))

\* a + " " + b
JoinSpace(a, b) == a \o <<" ">> \o b

\* the messages callers send
\* "thanks"
MsgThanks ==
    <<"t", "h", "a", "n", "k", "s">>
\* "patient Jane Doe"
MsgPatientJane ==
    <<"p", "a", "t", "i", "e", "n", "t", " ", "J", "a", "n", "e", " ", "D", "o", "e">>
Messages == {MsgThanks, MsgPatientJane}

\* the text the generation call returns: "ok"
ReplyText == <<"o", "k">>

\* orchestrator.py:95-103
indicators ==
    << <<"p", "a", "t", "i", "e", "n", "t", " ", "i", "n", "f", "o", "r", "m", "a", "t", "i", "o", "n", " ", "f", "o", "r", " ">>,
       <<"i", "n", "f", "o", "r", "m", "a", "t", "i", "o", "n", " ", "a", "b", "o", "u", "t", " ">>,
       <<"s", "h", "o", "w", " ", "m", "e", " ">>,
       <<"t", "e", "l", "l", " ", "m", "e", " ", "a", "b", "o", "u", "t", " ">>,
       <<"w", "h", "a", "t", " ", "a", "b", "o", "u", "t", " ">>,
       <<"p", "a", "t", "i", "e", "n", "t", " ">>,
       <<"i", "n", "f", "o", " ", "f", "o", "r", " ">> >>

\* patients of the backend
NameJane == <<"J", "a", "n", "e">>
NameDoe == <<"D", "o", "e">>

(***************************************************************************)
(* IntentType and IntentRecognizer (app/core/intent.py)                    *)
(***************************************************************************)
DoctorIntents ==
    {"doctor_patient_info", "doctor_appointment_schedule",
     "doctor_missed_appointments", "doctor_test_results"}
PatientIntents ==
    {"patient_appointment_info", "patient_medication_info",
     "patient_test_results", "patient_schedule_appointment"}
GeneralIntents == {"greeting", "farewell", "thanks", "help", "unknown"}
IntentType == DoctorIntents \cup PatientIntents \cup GeneralIntents

\* dict.get(key, default)
DictGet(d, key, default) == IF key \in DOMAIN d THEN d[key] ELSE default

\* the parameters object a classifier payload carries, when it carries one
ParamDicts == {[k \in {"patient_id"} |-> "p1"]}
\* the intent strings a classifier payload carries: the enumeration and one outside it
PayloadIntents == IntentType \cup {"book_flight"}

\* a JSON object with the optional fields "intent" and "parameters"
ResultObject(has_intent, intent, has_parameters, parameters) ==
    [k \in (IF has_intent THEN {"intent"} ELSE {})
           \cup (IF has_parameters THEN {"parameters"} ELSE {}) |->
        IF k = "intent" THEN intent ELSE parameters]

\* response.content of the classification call: text that is not JSON, JSON that
\* is not an object, or a JSON object
Payloads ==
    {[json |-> FALSE, object |-> FALSE, result |-> EmptyDict],
     [json |-> TRUE, object |-> FALSE, result |-> EmptyDict]}
    \cup {[json |-> TRUE, object |-> TRUE, result |-> ResultObject(hi, i, hp, p)] :
            hi \in BOOLEAN, i \in PayloadIntents, hp \in BOOLEAN, p \in ParamDicts}

\* what self.llm.ainvoke does in recognize_intent: it raises, or returns a payload
ClassifierOutcomes ==
    {[raised |-> TRUE, content |-> [json |-> FALSE, object |-> FALSE, result |-> EmptyDict]]}
    \cup {[raised |-> FALSE, content |-> p] : p \in Payloads}

\* IntentType(intent), ValueError mapped to UNKNOWN
ToIntentType(intent) == IF intent \in IntentType THEN intent ELSE "unknown"

\* a parse that hands an intent outside the enumeration through
ParseIntentUnchecked(content) ==
    IF ~content.json \/ ~content.object
    THEN [intent |-> "unknown", parameters |-> EmptyDict]
    ELSE [intent |-> DictGet(content.result, "intent", "unknown"),
          parameters |-> DictGet(content.result, "parameters", EmptyDict)]

\* recognize_intent, the try block: json.loads, the two .get defaults, the enum
\* conversion; any exception gives (UNKNOWN, {})
ParseIntent(content) ==
    IF ~content.json \/ ~content.object
    THEN [intent |-> "unknown", parameters |-> EmptyDict]
    ELSE [intent |-> ToIntentType(DictGet(content.result, "intent", "unknown")),
          parameters |-> DictGet(content.result, "parameters", EmptyDict)]

\* recognize_intent: the call (outside the try block), then the parse
recognize_intent(outcome) ==
    IF outcome.raised
    THEN [raised |-> TRUE, intent |-> "unknown", parameters |-> EmptyDict]
    ELSE [raised |-> FALSE] @@ ParseIntent(outcome.content)

(***************************************************************************)
(* BackendAPIClient (app/integrations/backend_api.py), as the orchestrator *)
(* uses it.  What the backend answers is the environment's choice.         *)
(***************************************************************************)
PatientJane ==
    [id |-> "p1", first_name |-> NameJane, last_name |-> NameDoe,
     allergies |-> [kind |-> "list", items |-> <<"penicillin">>],
     medications |-> [kind |-> "json", items |-> <<"aspirin">>]]
\* a second patient of the same name, whose record has no allergies field and
\* medications that are plain text
PatientJane2 ==
    [id |-> "p2", first_name |-> NameJane, last_name |-> NameDoe,
     medications |-> [kind |-> "text", items |-> <<"ibuprofen">>]]

\* get_patients: it raises, or returns the patient list
PatientLists == {<<>>, <<PatientJane>>, <<PatientJane, PatientJane2>>}
GetPatientsOutcomes ==
    {[ok |-> FALSE, patients |-> <<>>]} \cup {[ok |-> TRUE, patients |-> l] : l \in PatientLists}

\* get_patient: it raises, or returns the patient record
GetPatientOutcomes ==
    {[ok |-> FALSE, patient |-> PatientJane], [ok |-> TRUE, patient |-> PatientJane]}

\* a plain backend list read: it raises or returns the list
ListOutcomes(items) == {[ok |-> FALSE, items |-> <<>>], [ok |-> TRUE, items |-> items]}

\* find_patient_by_name
find_patient_by_name(name, got) ==
    LET lname == Lower(name)
        Matches(patient) ==
            LET first_name == Lower(patient.first_name)
                last_name == Lower(patient.last_name)
                full_name == JoinSpace(first_name, last_name)
            IN  \/ Contains(first_name, lname)
                \/ Contains(last_name, lname)
                \/ Contains(full_name, lname)
    IN  IF ~got.ok
        THEN [raised |-> TRUE, value |-> <<>>]
        ELSE [raised |-> FALSE, value |-> SelectSeq(got.patients, Matches)]

\* a stored list field: a list, a JSON string of a list, any other string (one
\* item), or something else (no items)
ListField(patient, field) ==
    IF field \notin DOMAIN patient THEN <<>>
    ELSE IF patient[field].kind \in {"list", "json", "text"} THEN patient[field].items
    ELSE <<>>

\* get_patient_allergies: every failure is caught and gives []
get_patient_allergies(got) ==
    IF ~got.ok
    THEN [raised |-> FALSE, value |-> <<>>]
    ELSE [raised |-> FALSE, value |-> ListField(got.patient, "allergies")]

\* get_patient_medications: every failure is caught and gives []
get_patient_medications(got) ==
    IF ~got.ok
    THEN [raised |-> FALSE, value |-> <<>>]
    ELSE [raised |-> FALSE, value |-> ListField(got.patient, "medications")]

\* get_patient_test_results: every failure of the record read is caught and gives []
get_patient_test_results(got) ==
    IF ~got.ok
    THEN [raised |-> FALSE, value |-> <<>>]
    ELSE [raised |-> FALSE, value |-> got.items]

\* the data the plain list reads return
ScheduleData == <<[id |-> "a1", patient_id |-> "p1", patient_name |-> "Jane Doe"]>>
MissedData == <<[id |-> "a2", patient_id |-> "p1", patient_name |-> "Jane Doe"]>>
TestResultData == <<[date |-> "2024-01-01", doctor |-> "Unknown", diagnosis |-> "blood test"]>>
AppointmentData == <<[id |-> "a3", doctor_id |-> "d1"], [id |-> "a4"]>>
DoctorData == <<[id |-> "d1", first_name |-> "Sarah", last_name |-> "Johnson"]>>

\* the answers of a backend that is not asked anything
QuietBackend ==
    [patients |-> [ok |-> TRUE, patients |-> <<>>],
     patient |-> [ok |-> TRUE, patient |-> PatientJane],
     allergies |-> [ok |-> TRUE, patient |-> PatientJane],
     medications |-> [ok |-> TRUE, patient |-> PatientJane],
     schedule |-> [ok |-> TRUE, items |-> ScheduleData],
     missed |-> [ok |-> TRUE, items |-> MissedData],
     tests |-> [ok |-> TRUE, items |-> TestResultData],
     appointments |-> [ok |-> TRUE, items |-> AppointmentData],
     doctors |-> [ok |-> TRUE, items |-> DoctorData]]

(***************************************************************************)
(* LLMService.process_chat (app/integrations/llm_service.py)               *)
(***************************************************************************)
\* a messages list that puts the facts before the replayed history
chat_messages_facts_first(user_input, context, system_prompt, history) ==
    LET Replayed(msg) == msg.role \in {"user", "assistant"}
        replay == [i \in 1 .. Len(SelectSeq(history, Replayed)) |->
                     LET msg == SelectSeq(history, Replayed)[i]
                     IN  [kind |-> IF msg.role = "user" THEN "human" ELSE "ai",
                          content |-> msg.content]]
    IN  <<[kind |-> "system", prompt |-> system_prompt]>>
        \o (IF context # EmptyDict THEN <<[kind |-> "context", facts |-> context]>> ELSE <<>>)
        \o replay
        \o <<[kind |-> "human", content |-> user_input]>>

\* the messages list handed to the generation call
chat_messages(user_input, context, system_prompt, history) ==
    LET Replayed(msg) == msg.role \in {"user", "assistant"}
        replay == [i \in 1 .. Len(SelectSeq(history, Replayed)) |->
                     LET msg == SelectSeq(history, Replayed)[i]
                     IN  [kind |-> IF msg.role = "user" THEN "human" ELSE "ai",
                          content |-> msg.content]]
    IN  <<[kind |-> "system", prompt |-> system_prompt]>>
        \o replay
        \o (IF context # EmptyDict THEN <<[kind |-> "context", facts |-> context]>> ELSE <<>>)
        \o <<[kind |-> "human", content |-> user_input]>>

\* what self.llm.ainvoke does in process_chat: it raises, or returns the reply
GenerationOutcomes == {[raised |-> TRUE, text |-> <<>>], [raised |-> FALSE, text |-> ReplyText]}

(***************************************************************************)
(* Orchestrator (app/core/orchestrator.py)                                 *)
(***************************************************************************)
\* the identity a caller passes: its own, or with user_id or user_type missing
Identities ==
    Callers
    \cup {[user_id |-> Missing, user_type |-> "patient"],
          [user_id |-> "u1", user_type |-> Missing]}

\* a process_message call: message, session_id, user_id, user_type
Requests(known) ==
    {[message |-> m, session_id |-> id, user_id |-> c.user_id, user_type |-> c.user_type] :
        m \in Messages, id \in known \cup {NoSessionId}, c \in Identities}

NoRequest ==
    [message |-> <<>>, session_id |-> NoSessionId, user_id |-> Missing, user_type |-> Missing]

NoOutcome == [raised |-> FALSE, content |-> [json |-> FALSE, object |-> FALSE, result |-> EmptyDict]]

\* no process_message call was made yet
IdleTurn ==
    [pc |-> "idle", request |-> NoRequest,
     session_id |-> NoSessionId, user_id |-> Missing, user_type |-> Missing,
     message |-> <<>>, created |-> {}, classifier |-> NoOutcome, backend |-> QuietBackend,
     intent |-> "", parameters |-> EmptyDict,
     context |-> EmptyDict, actions |-> <<>>, history |-> <<>>,
     llm_messages |-> <<>>, text |-> <<>>, error |-> "", calls |-> <<>>,
     persisted |-> ""]

\* a call of a collaborator, as the turn's log records it
Call(fn, id) == [fn |-> fn, id |-> id]

\* _extract_patient_name, from the i-th indicator on
RECURSIVE ExtractFrom(_, _)
ExtractFrom(message, i) ==
    IF i > Len(indicators)
    THEN [found |-> FALSE, name |-> <<>>]
    ELSE LET indicator == indicators[i]
             pos == Find(message, indicator) + Len(indicator)
             words == Split(From(message, pos))
         IN  IF Contains(message, indicator) /\ words # <<>>
             THEN [found |-> TRUE,
                   name |-> IF Len(words) >= 2 THEN JoinSpace(words[1], words[2])
                            ELSE words[1]]
             ELSE ExtractFrom(message, i + 1)

\* _extract_patient_name
extract_patient_name(message) == ExtractFrom(Lower(message), 1)

\* a resolution that creates the session first and validates the identity after
ResolveSessionLateCheck(w, request) ==
    LET no_identity == request.user_id = Missing \/ request.user_type = Missing
        missing == request.session_id = NoSessionId
        fresh == w.allocated # SessionIds
        c1 == IF missing /\ fresh
              THEN create_session(w, uuid4(w.allocated), request.user_id, request.user_type)
              ELSE [w |-> w, session_id |-> request.session_id]
        made1 == IF missing /\ fresh THEN {c1.session_id} ELSE {}
        g1 == get_session(c1.w, c1.session_id)
        c2 == create_session(g1.w, uuid4(g1.w.allocated), request.user_id, request.user_type)
        g2 == get_session(c2.w, c2.session_id)
    IN  IF g1.found /\ ~no_identity
        THEN [raised |-> FALSE, w |-> g1.w, session_id |-> c1.session_id,
              session |-> g1.data, created |-> made1]
        ELSE IF g1.found /\ ~missing
        THEN [raised |-> FALSE, w |-> g1.w, session_id |-> c1.session_id,
              session |-> g1.data, created |-> made1]
        ELSE IF no_identity
        THEN [raised |-> TRUE, w |-> g1.w, session_id |-> NoSessionId, session |-> NoSession,
              created |-> made1]
        ELSE [raised |-> FALSE, w |-> g2.w, session_id |-> c2.session_id,
              session |-> g2.data, created |-> made1 \cup {c2.session_id}]

\* a resolution that re-creates a session that is not found under the id supplied
ResolveSessionReusingId(w, request) ==
    LET no_identity == request.user_id = Missing \/ request.user_type = Missing
        c1 == IF request.session_id = NoSessionId
              THEN create_session(w, uuid4(w.allocated), request.user_id, request.user_type)
              ELSE [w |-> w, session_id |-> request.session_id]
        made1 == IF request.session_id = NoSessionId THEN {c1.session_id} ELSE {}
        g1 == get_session(c1.w, c1.session_id)
        id2 == IF request.session_id \in SessionIds THEN request.session_id
               ELSE uuid4(g1.w.allocated)
        c2 == create_session(g1.w, id2, request.user_id, request.user_type)
        g2 == get_session(c2.w, c2.session_id)
    IN  IF request.session_id = NoSessionId /\ no_identity
        THEN [raised |-> TRUE, w |-> w, session_id |-> NoSessionId, session |-> NoSession,
              created |-> {}]
        ELSE IF g1.found
        THEN [raised |-> FALSE, w |-> g1.w, session_id |-> c1.session_id,
              session |-> g1.data, created |-> made1]
        ELSE IF no_identity
        THEN [raised |-> TRUE, w |-> g1.w, session_id |-> NoSessionId, session |-> NoSession,
              created |-> made1]
        ELSE [raised |-> FALSE, w |-> g2.w, session_id |-> c2.session_id,
              session |-> g2.data, created |-> made1 \cup {c2.session_id}]

\* process_message, lines 29-41: the session the turn runs on, or ValueError
ResolveSession(w, request) ==
    LET no_identity == request.user_id = Missing \/ request.user_type = Missing
        c1 == IF request.session_id = NoSessionId
              THEN create_session(w, uuid4(w.allocated), request.user_id, request.user_type)
              ELSE [w |-> w, session_id |-> request.session_id]
        made1 == IF request.session_id = NoSessionId THEN {c1.session_id} ELSE {}
        g1 == get_session(c1.w, c1.session_id)
        c2 == create_session(g1.w, uuid4(g1.w.allocated), request.user_id, request.user_type)
        g2 == get_session(c2.w, c2.session_id)
    IN  IF request.session_id = NoSessionId /\ no_identity
        THEN [raised |-> TRUE, w |-> w, session_id |-> NoSessionId, session |-> NoSession,
              created |-> {}]
        ELSE IF g1.found
        THEN [raised |-> FALSE, w |-> g1.w, session_id |-> c1.session_id,
              session |-> g1.data, created |-> made1]
        ELSE IF no_identity
        THEN [raised |-> TRUE, w |-> g1.w, session_id |-> NoSessionId, session |-> NoSession,
              created |-> made1]
        ELSE [raised |-> FALSE, w |-> g2.w, session_id |-> c2.session_id,
              session |-> g2.data, created |-> made1 \cup {c2.session_id}]

\* whether process_message(request) calls create_session
NeedsCreate(w, request) ==
    /\ ~(request.user_id = Missing \/ request.user_type = Missing)
    /\ \/ request.session_id = NoSessionId
       \/ ~RedisExists(w, Key(request.session_id))

\* a turn that takes the role the caller supplies when there is one
TurnIdentityFromCaller(session, request) ==
    [user_type |-> IF request.user_type # Missing THEN request.user_type
                   ELSE session.user_type,
     user_id |-> IF request.user_id # Missing THEN request.user_id ELSE session.user_id]

\* lines 43-45: the role and the user of the turn are the session's
TurnIdentity(session, request) ==
    [user_type |-> session.user_type, user_id |-> session.user_id]

\* lines 29-48: resolve the session, take its role and user, append the message
BeginTurn(w, t, request) ==
    LET r == ResolveSession(w, request)
        who == TurnIdentity(r.session, request)
        a == add_message_to_history(r.w, r.session_id, "user", request.message)
    IN  IF r.raised
        THEN [w |-> r.w,
              t |-> [t EXCEPT !.pc = "failed", !.request = request,
                              !.created = r.created, !.error = "ValueError"]]
        ELSE [w |-> a.w,
              t |-> [t EXCEPT !.pc = "classify", !.request = request,
                              !.session_id = r.session_id, !.created = r.created,
                              !.user_id = who.user_id, !.user_type = who.user_type,
                              !.message = request.message,
                              !.calls = <<Call("add_message_to_history", "user")>>]]

\* a classification step that calls the recogniser a second time when it raised
ClassifyTurnRetrying(t, outcome) ==
    LET r == recognize_intent(outcome)
    IN  IF r.raised
        THEN [t EXCEPT !.pc = "failed", !.classifier = outcome,
                       !.error = "ClassificationError",
                       !.calls = @ \o <<Call("recognize_intent", t.user_type),
                                        Call("recognize_intent", t.user_type)>>]
        ELSE [t EXCEPT !.pc = "resolve", !.classifier = outcome,
                       !.intent = r.intent, !.parameters = r.parameters,
                       !.calls = Append(@, Call("recognize_intent", t.user_type))]

\* line 51: recognize_intent; an exception of the recogniser ends the turn
ClassifyTurn(t, outcome) ==
    LET r == recognize_intent(outcome)
    IN  IF r.raised
        THEN [t EXCEPT !.pc = "failed", !.classifier = outcome,
                       !.error = "ClassificationError",
                       !.calls = Append(@, Call("recognize_intent", t.user_type))]
        ELSE [t EXCEPT !.pc = "resolve", !.classifier = outcome,
                       !.intent = r.intent, !.parameters = r.parameters,
                       !.calls = Append(@, Call("recognize_intent", t.user_type))]

\* a resolution that takes the first of several matches
WithFirstMatch(parameters, patients) ==
    IF Len(patients) >= 1
    THEN DictSet(DictSet(parameters, "patient_id", patients[1].id),
                 "patient_name", JoinSpace(patients[1].first_name, patients[1].last_name))
    ELSE parameters

\* lines 60-65: the parameters after a name search that returned patients
WithMatches(parameters, patients) ==
    IF Len(patients) = 1
    THEN DictSet(DictSet(parameters, "patient_id", patients[1].id),
                 "patient_name", JoinSpace(patients[1].first_name, patients[1].last_name))
    ELSE IF Len(patients) > 1
    THEN DictSet(parameters, "matched_patients", patients)
    ELSE parameters

\* name resolution without the try of lines 53-67: a search that raises ends the turn
ResolveNameTurnUncaught(t, be) ==
    LET name == extract_patient_name(t.message)
        found == find_patient_by_name(name.name, be.patients)
    IN  IF "patient_id" \notin DOMAIN t.parameters /\ t.user_type = "doctor" /\ name.found
        THEN IF found.raised
             THEN [t EXCEPT !.pc = "failed", !.error = "BackendError",
                            !.backend = [QuietBackend EXCEPT !.patients = be.patients],
                            !.calls = Append(@, Call("find_patient_by_name", ""))]
             ELSE [t EXCEPT !.pc = "persist",
                            !.backend = [QuietBackend EXCEPT !.patients = be.patients],
                            !.parameters = WithMatches(@, found.value),
                            !.calls = Append(@, Call("find_patient_by_name", ""))]
        ELSE [t EXCEPT !.pc = "persist"]

\* a name resolution made in every turn whose message names a patient
ResolveNameTurnUnguarded(t, be) ==
    LET name == extract_patient_name(t.message)
        found == find_patient_by_name(name.name, be.patients)
    IN  IF name.found
        THEN [t EXCEPT !.pc = "persist",
                       !.backend = [QuietBackend EXCEPT !.patients = be.patients],
                       !.parameters = IF found.raised THEN @ ELSE WithMatches(@, found.value),
                       !.calls = Append(@, Call("find_patient_by_name", ""))]
        ELSE [t EXCEPT !.pc = "persist"]

\* lines 53-67: name resolution, in a doctor's turn without a patient_id
ResolveNameTurn(t, be) ==
    LET name == extract_patient_name(t.message)
        found == find_patient_by_name(name.name, be.patients)
    IN  IF "patient_id" \notin DOMAIN t.parameters /\ t.user_type = "doctor" /\ name.found
        THEN [t EXCEPT !.pc = "persist",
                       !.backend = [QuietBackend EXCEPT !.patients = be.patients],
                       !.parameters = IF found.raised THEN @ ELSE WithMatches(@, found.value),
                       !.calls = Append(@, Call("find_patient_by_name", ""))]
        ELSE [t EXCEPT !.pc = "persist"]

\* what a Redis command of the metadata write does: it goes through, or the
\* client raises (the server is unreachable)
StoreOutcomes == {"ok", "error"}

\* a persist step that leaves the metadata write to the end of the turn
PersistTurnDeferred(w, t, store) ==
    [w |-> w,
     t |-> [t EXCEPT !.pc = IF store = "error" THEN "failed" ELSE "dispatch",
                     !.error = IF store = "error" THEN "StoreError" ELSE @,
                     !.persisted = store]]

\* a persist step that raises when set_metadata returns False
PersistTurnChecked(w, t, store) ==
    LET m1 == set_metadata(w, t.session_id, "last_intent", t.intent)
        m2 == set_metadata(m1.w, t.session_id, "intent_parameters", t.parameters)
    IN  IF store = "error" \/ ~m1.ok
        THEN [w |-> w,
              t |-> [t EXCEPT !.pc = "failed", !.error = "StoreError",
                              !.persisted = IF store = "error" THEN "error" ELSE "not_found",
                              !.calls = Append(@, Call("set_metadata", "last_intent"))]]
        ELSE [w |-> m2.w,
              t |-> [t EXCEPT !.pc = "dispatch",
                              !.persisted = IF m1.ok /\ m2.ok THEN "ok" ELSE "not_found",
                              !.calls = @ \o <<Call("set_metadata", "last_intent"),
                                               Call("set_metadata", "intent_parameters")>>]]

\* lines 69-71: last_intent and intent_parameters into the metadata; the return
\* values of set_metadata are dropped, and nothing catches what it raises
PersistTurn(w, t, store) ==
    LET m1 == set_metadata(w, t.session_id, "last_intent", t.intent)
        m2 == set_metadata(m1.w, t.session_id, "intent_parameters", t.parameters)
    IN  IF store = "error"
        THEN [w |-> w,
              t |-> [t EXCEPT !.pc = "failed", !.error = "StoreError",
                              !.persisted = "error",
                              !.calls = Append(@, Call("set_metadata", "last_intent"))]]
        ELSE [w |-> m2.w,
              t |-> [t EXCEPT !.pc = "dispatch",
                              !.persisted = IF m1.ok /\ m2.ok THEN "ok" ELSE "not_found",
                              !.calls = @ \o <<Call("set_metadata", "last_intent"),
                                               Call("set_metadata", "intent_parameters")>>]]

\* the outcome of a handler branch
Handled(context, actions, calls) == [context |-> context, actions |-> actions, calls |-> calls]

Fact(key, value) == [k \in {key} |-> value]
Action(type, data) == [type |-> type, data |-> data]

\* a doctor_patient_info handler that reads the first of several candidates
HandleDoctorPatientInfoFirstCandidate(parameters, be) ==
    LET patient_id == IF "matched_patients" \in DOMAIN parameters
                      THEN parameters["matched_patients"][1].id
                      ELSE DictGet(parameters, "patient_id", "")
    IN  IF patient_id # "" /\ be.patient.ok
        THEN Handled(Fact("patient", be.patient.patient),
                     <<Action("display_patient_info",
                              [basic_info |-> be.patient.patient,
                               allergies |-> <<>>, medications |-> <<>>])>>,
                     <<Call("get_patient", patient_id)>>)
        ELSE Handled(EmptyDict, <<>>, <<>>)

\* lines 142-182: doctor_patient_info
HandleDoctorPatientInfo(parameters, be) ==
    LET patient_id == DictGet(parameters, "patient_id", "")
        allergies == get_patient_allergies(be.allergies)
        medications == get_patient_medications(be.medications)
        c1 == Fact("patient", be.patient.patient)
        c2 == IF allergies.raised THEN c1 ELSE DictSet(c1, "allergies", allergies.value)
        c3 == IF medications.raised THEN c2 ELSE DictSet(c2, "medications", medications.value)
        reads == <<Call("get_patient", patient_id), Call("get_patient_allergies", patient_id),
                   Call("get_patient_medications", patient_id)>>
    IN  IF patient_id # ""
        THEN IF ~be.patient.ok
             THEN Handled(Fact("error", "Could not retrieve patient information"), <<>>,
                          <<Call("get_patient", patient_id)>>)
             ELSE Handled(c3,
                          <<Action("display_patient_info",
                                   [basic_info |-> be.patient.patient,
                                    allergies |-> DictGet(c3, "allergies", <<>>),
                                    medications |-> DictGet(c3, "medications", <<>>)])>>,
                          reads)
        ELSE IF "matched_patients" \in DOMAIN parameters
        THEN Handled(Fact("matched_patients", parameters["matched_patients"]),
                     <<Action("display_matched_patients", parameters["matched_patients"])>>,
                     <<>>)
        ELSE Handled(EmptyDict, <<>>, <<>>)

\* lines 184-195: doctor_appointment_schedule
HandleDoctorSchedule(user_id, be) ==
    IF be.schedule.ok
    THEN Handled(Fact("schedule", be.schedule.items),
                 <<Action("display_schedule", be.schedule.items)>>,
                 <<Call("get_doctor_schedule", user_id)>>)
    ELSE Handled(Fact("error", "Could not retrieve appointment schedule"), <<>>,
                 <<Call("get_doctor_schedule", user_id)>>)

\* lines 197-207: doctor_missed_appointments
HandleDoctorMissed(user_id, be) ==
    IF be.missed.ok
    THEN Handled(Fact("missed_appointments", be.missed.items),
                 <<Action("display_missed_appointments", be.missed.items)>>,
                 <<Call("get_missed_appointments", user_id)>>)
    ELSE Handled(Fact("error", "Could not retrieve missed appointments"), <<>>,
                 <<Call("get_missed_appointments", user_id)>>)

\* a doctor_test_results handler that emits its action before it reads the patient
HandleDoctorTestResultsActionFirst(parameters, be) ==
    LET patient_id == DictGet(parameters, "patient_id", "")
        results == get_patient_test_results(be.tests)
        patient_name == JoinSpace(be.patient.patient.first_name, be.patient.patient.last_name)
    IN  IF patient_id = ""
        THEN Handled(EmptyDict, <<>>, <<>>)
        ELSE IF results.raised
        THEN Handled(Fact("error", "Could not retrieve test results"), <<>>,
                     <<Call("get_patient_test_results", patient_id)>>)
        ELSE IF ~be.patient.ok
        THEN Handled(DictSet(Fact("test_results", results.value),
                             "error", "Could not retrieve test results"),
                     <<Action("display_test_results",
                              [patient |-> <<>>, results |-> results.value])>>,
                     <<Call("get_patient_test_results", patient_id),
                       Call("get_patient", patient_id)>>)
        ELSE Handled(DictSet(Fact("test_results", results.value), "patient_name", patient_name),
                     <<Action("display_test_results",
                              [patient |-> patient_name, results |-> results.value])>>,
                     <<Call("get_patient_test_results", patient_id),
                       Call("get_patient", patient_id)>>)

\* lines 209-230: doctor_test_results
HandleDoctorTestResults(parameters, be) ==
    LET patient_id == DictGet(parameters, "patient_id", "")
        results == get_patient_test_results(be.tests)
        patient_name == JoinSpace(be.patient.patient.first_name, be.patient.patient.last_name)
    IN  IF patient_id = ""
        THEN Handled(EmptyDict, <<>>, <<>>)
        ELSE IF results.raised
        THEN Handled(Fact("error", "Could not retrieve test results"), <<>>,
                     <<Call("get_patient_test_results", patient_id)>>)
        ELSE IF ~be.patient.ok
        THEN Handled(Fact("error", "Could not retrieve test results"), <<>>,
                     <<Call("get_patient_test_results", patient_id),
                       Call("get_patient", patient_id)>>)
        ELSE Handled(DictSet(Fact("test_results", results.value), "patient_name", patient_name),
                     <<Action("display_test_results",
                              [patient |-> patient_name, results |-> results.value])>>,
                     <<Call("get_patient_test_results", patient_id),
                       Call("get_patient", patient_id)>>)

\* lines 240-252: the appointment with the doctor's name; reading the unbound
\* name `doctor` raises, so the name is always "Unknown"
WithDoctorName(appointment) ==
    IF "doctor_id" \in DOMAIN appointment
    THEN DictSet(appointment, "doctor_name", "Unknown")
    ELSE appointment

\* lines 234-261: patient_appointment_info
HandlePatientAppointments(user_id, be) ==
    LET detailed == [i \in 1 .. Len(be.appointments.items) |->
                        WithDoctorName(be.appointments.items[i])]
    IN  IF be.appointments.ok
        THEN Handled(Fact("appointments", detailed),
                     <<Action("display_appointments", detailed)>>,
                     <<Call("get_appointments", user_id)>>)
        ELSE Handled(Fact("error", "Could not retrieve appointment information"), <<>>,
                     <<Call("get_appointments", user_id)>>)

\* lines 263-274: patient_medication_info
HandlePatientMedications(user_id, be) ==
    LET medications == get_patient_medications(be.medications)
    IN  IF medications.raised
        THEN Handled(Fact("error", "Could not retrieve medication information"), <<>>,
                     <<Call("get_patient_medications", user_id)>>)
        ELSE Handled(Fact("medications", medications.value),
                     <<Action("display_medications", medications.value)>>,
                     <<Call("get_patient_medications", user_id)>>)

\* lines 276-287: patient_test_results
HandlePatientTestResults(user_id, be) ==
    LET results == get_patient_test_results(be.tests)
    IN  IF results.raised
        THEN Handled(Fact("error", "Could not retrieve test results"), <<>>,
                     <<Call("get_patient_test_results", user_id)>>)
        ELSE Handled(Fact("test_results", results.value),
                     <<Action("display_test_results", results.value)>>,
                     <<Call("get_patient_test_results", user_id)>>)

\* lines 289-311: patient_schedule_appointment
HandlePatientScheduling(be) ==
    LET doctor_list == [i \in 1 .. Len(be.doctors.items) |->
                          LET doctor == be.doctors.items[i]
                          IN  [id |-> doctor.id,
                               name |-> <<"Dr.", doctor.first_name, doctor.last_name>>,
                               specialty |-> DictGet(doctor, "specialty", "General Practice")]]
    IN  IF be.doctors.ok
        THEN Handled(Fact("available_doctors", doctor_list),
                     <<Action("initiate_appointment_scheduling",
                              [message |-> "Please provide your preferred date, time, and doctor for the appointment.",
                               available_doctors |-> doctor_list])>>,
                     <<Call("get_doctors", "")>>)
        ELSE Handled(Fact("error", "Could not retrieve available doctors"), <<>>,
                     <<Call("get_doctors", "")>>)

\* a dispatch that runs the handler of the intent whatever the role is
RoleHandlerByIntent(intent, parameters, user_id, user_type, be) ==
    IF intent = "doctor_patient_info" THEN HandleDoctorPatientInfo(parameters, be)
    ELSE IF intent = "doctor_appointment_schedule" THEN HandleDoctorSchedule(user_id, be)
    ELSE IF intent = "doctor_missed_appointments" THEN HandleDoctorMissed(user_id, be)
    ELSE IF intent = "doctor_test_results" THEN HandleDoctorTestResults(parameters, be)
    ELSE IF intent = "patient_appointment_info" THEN HandlePatientAppointments(user_id, be)
    ELSE IF intent = "patient_medication_info" THEN HandlePatientMedications(user_id, be)
    ELSE IF intent = "patient_test_results" THEN HandlePatientTestResults(user_id, be)
    ELSE IF intent = "patient_schedule_appointment" THEN HandlePatientScheduling(be)
    ELSE Handled(EmptyDict, <<>>, <<>>)

\* a handler that looks up the appointments of a patient whatever the intent
RoleHandlerEager(intent, parameters, user_id, user_type, be) ==
    IF user_type = "doctor"
    THEN IF intent = "doctor_patient_info" THEN HandleDoctorPatientInfo(parameters, be)
         ELSE IF intent = "doctor_appointment_schedule" THEN HandleDoctorSchedule(user_id, be)
         ELSE IF intent = "doctor_missed_appointments" THEN HandleDoctorMissed(user_id, be)
         ELSE IF intent = "doctor_test_results" THEN HandleDoctorTestResults(parameters, be)
         ELSE Handled(EmptyDict, <<>>, <<>>)
    ELSE IF user_type = "patient"
    THEN IF intent = "patient_medication_info" THEN HandlePatientMedications(user_id, be)
         ELSE IF intent = "patient_test_results" THEN HandlePatientTestResults(user_id, be)
         ELSE IF intent = "patient_schedule_appointment" THEN HandlePatientScheduling(be)
         ELSE HandlePatientAppointments(user_id, be)
    ELSE Handled(EmptyDict, <<>>, <<>>)

\* lines 140-311: the role's branch, then the intent's branch inside it
RoleHandler(intent, parameters, user_id, user_type, be) ==
    IF user_type = "doctor"
    THEN IF intent = "doctor_patient_info" THEN HandleDoctorPatientInfo(parameters, be)
         ELSE IF intent = "doctor_appointment_schedule" THEN HandleDoctorSchedule(user_id, be)
         ELSE IF intent = "doctor_missed_appointments" THEN HandleDoctorMissed(user_id, be)
         ELSE IF intent = "doctor_test_results" THEN HandleDoctorTestResults(parameters, be)
         ELSE Handled(EmptyDict, <<>>, <<>>)
    ELSE IF user_type = "patient"
    THEN IF intent = "patient_appointment_info" THEN HandlePatientAppointments(user_id, be)
         ELSE IF intent = "patient_medication_info" THEN HandlePatientMedications(user_id, be)
         ELSE IF intent = "patient_test_results" THEN HandlePatientTestResults(user_id, be)
         ELSE IF intent = "patient_schedule_appointment" THEN HandlePatientScheduling(be)
         ELSE Handled(EmptyDict, <<>>, <<>>)
    ELSE Handled(EmptyDict, <<>>, <<>>)

DoctorHelpTopics ==
    <<"Viewing patient information", "Checking your appointment schedule",
      "Viewing missed appointments", "Accessing test results">>
PatientHelpTopics ==
    <<"Viewing your appointments", "Finding information about your medications",
      "Accessing your test results", "Scheduling new appointments">>

\* general facts that tell a doctor more than the role and the help topics
GeneralFactsWithRoleExtras(context, intent, user_type) ==
    LET c1 == DictSet(context, "user_type", user_type)
        c2 == IF user_type = "doctor" THEN DictSet(c1, "schedule", ScheduleData) ELSE c1
    IN  IF intent \notin GeneralIntents THEN context
        ELSE IF intent = "help" /\ user_type = "doctor"
        THEN DictSet(c2, "help_topics", DoctorHelpTopics)
        ELSE IF intent = "help" /\ user_type = "patient"
        THEN DictSet(c2, "help_topics", PatientHelpTopics)
        ELSE c2

\* lines 313-333: the facts a general intent adds
GeneralFacts(context, intent, user_type) ==
    LET c1 == DictSet(context, "user_type", user_type)
    IN  IF intent \notin GeneralIntents THEN context
        ELSE IF intent = "help" /\ user_type = "doctor"
        THEN DictSet(c1, "help_topics", DoctorHelpTopics)
        ELSE IF intent = "help" /\ user_type = "patient"
        THEN DictSet(c1, "help_topics", PatientHelpTopics)
        ELSE c1

\* lines 335-359: the role-conditioned instruction; None takes process_chat's default
SystemPrompt(user_type) ==
    IF user_type = "doctor" THEN "assisting a doctor"
    ELSE IF user_type = "patient" THEN "assisting a patient"
    ELSE "default"

\* the backend answer a client method rests on
ReadOf(fn) ==
    CASE fn = "get_patient" -> "patient"
      [] fn = "get_patient_allergies" -> "allergies"
      [] fn = "get_patient_medications" -> "medications"
      [] fn = "get_doctor_schedule" -> "schedule"
      [] fn = "get_missed_appointments" -> "missed"
      [] fn = "get_patient_test_results" -> "tests"
      [] fn = "get_appointments" -> "appointments"
      [] fn = "get_doctors" -> "doctors"
      [] OTHER -> "patients"

\* the backend answers the calls of a handler were given
Answered(calls, be) == {ReadOf(calls[i].fn) : i \in 1 .. Len(calls)}

\* _handle_intent up to the generation call: the history, the facts, the actions
DispatchTurn(w, t, be) ==
    LET h == get_history(w, t.session_id)
        r == RoleHandler(t.intent, t.parameters, t.user_id, t.user_type, be)
        context == GeneralFacts(r.context, t.intent, t.user_type)
    IN  [w |-> h.w,
         t |-> [t EXCEPT !.pc = "generate",
                         !.backend = [f \in DOMAIN be |->
                                        IF f \in Answered(r.calls, be) THEN be[f]
                                        ELSE t.backend[f]],
                         !.history = h.history,
                         !.context = context,
                         !.actions = r.actions,
                         !.llm_messages = chat_messages(t.message, context,
                                                        SystemPrompt(t.user_type), h.history),
                         !.calls = @ \o <<Call("get_history", "")>> \o r.calls]]

\* a generation step that answers with a stock apology when the call raises
GenerateTurnDegraded(t, outcome) ==
    IF outcome.raised
    THEN [t EXCEPT !.pc = "reply", !.error = "GenerationError", !.text = MsgThanks,
                   !.calls = Append(@, Call("process_chat", ""))]
    ELSE [t EXCEPT !.pc = "reply", !.text = outcome.text,
                   !.calls = Append(@, Call("process_chat", ""))]

\* lines 361-367: the generation call; its exception ends the turn
GenerateTurn(t, outcome) ==
    IF outcome.raised
    THEN [t EXCEPT !.pc = "failed", !.error = "GenerationError",
                   !.calls = Append(@, Call("process_chat", ""))]
    ELSE [t EXCEPT !.pc = "reply", !.text = outcome.text,
                   !.calls = Append(@, Call("process_chat", ""))]

\* a reply step that returns the reply without appending it to the history
ReplyTurnUnsaved(w, t) ==
    [w |-> w,
     t |-> [t EXCEPT !.pc = "done",
                     !.calls = Append(@, Call("add_message_to_history", "assistant"))]]

\* lines 76-87: the reply into the history, and the response
ReplyTurn(w, t) ==
    LET a == add_message_to_history(w, t.session_id, "assistant", t.text)
    IN  [w |-> a.w,
         t |-> [t EXCEPT !.pc = "done",
                         !.calls = Append(@, Call("add_message_to_history", "assistant"))]]

\* the response process_message returns
Response(t) ==
    [text |-> t.text, session_id |-> t.session_id, intent |-> t.intent, actions |-> t.actions]


\* what the collaborators of one turn answer: the classification call, the
\* backend reads and the generation call
Environments(classifier, backends, generation, stores) ==
    {[classifier |-> c, backend |-> b, generation |-> g, store |-> s] :
        c \in classifier, b \in backends, g \in generation, s \in stores}

\* process_message, lines 10-87, from the call to the response or the exception
RunTurn(w, request, env) ==
    LET b == BeginTurn(w, IdleTurn, request)
        c == ClassifyTurn(b.t, env.classifier)
        n == ResolveNameTurn(c, env.backend)
        p == PersistTurn(b.w, n, env.store)
        d == DispatchTurn(p.w, p.t, env.backend)
        g == GenerateTurn(d.t, env.generation)
        r == ReplyTurn(d.w, g)
    IN  IF b.t.pc = "failed" THEN b
        ELSE IF c.pc = "failed" THEN [w |-> b.w, t |-> c]
        ELSE IF p.t.pc = "failed" THEN p
        ELSE IF g.pc = "failed" THEN [w |-> d.w, t |-> g]
        ELSE r

(***************************************************************************)
(* The live sessions, as a reader of the store sees them.                  *)
(***************************************************************************)
Live(session_id) == RedisExists(World, Key(session_id))
Session(session_id) == json_loads(redis[Key(session_id)].value)
LiveIn(w, session_id) == RedisExists(w, Key(session_id))
SessionIn(w, session_id) == json_loads(w.redis[Key(session_id)].value)

(***************************************************************************)
(* The store's interface, called one operation at a time.                  *)
(***************************************************************************)
MetaKeys == {"name"}
MetaValues == {"a", "b"}
\* the ids a caller can present: the ones handed out so far, and a foreign one
KnownIds == allocated \cup {ForeignId}
TotalAppended == LET Sum[S \in SUBSET SessionIds] ==
                        IF S = {} THEN 0
                        ELSE LET s == CHOOSE x \in S : TRUE
                             IN  Len(appended[s]) + Sum[S \ {s}]
                 IN  Sum[SessionIds]

\* the concurrent clients of the store: two requests served at the same time
Clients == {"A", "B"}

\* no client is in a call: nothing left to do, no record read, nothing returned
NoClients ==
    [c \in Clients |->
        [todo |-> <<>>, pc |-> "call", data |-> NoSession, returned |-> <<>>, began |-> FALSE]]

InitStore ==
    /\ redis = EmptyDict
    /\ now = 0
    /\ allocated = {}
    /\ appended = [s \in SessionIds |-> <<>>]
    /\ touched = [s \in SessionIds |-> Never]
    /\ ret = [op |-> "none", session_id |-> NoSessionId, ok |-> TRUE]
    /\ turn = IdleTurn
    /\ clients = NoClients

\* POST /sessions without metadata, or a direct create_session
CreateSession ==
    /\ allocated # SessionIds
    /\ \E c \in Callers :
        LET r == create_session(World, uuid4(allocated), c.user_id, c.user_type)
        IN  /\ SetWorld(r.w)
            /\ ret' = [op |-> "create_session", session_id |-> r.session_id, ok |-> TRUE]
            /\ UNCHANGED <<turn, clients>>

\* the metadata a POST /sessions request carries: a string or null under one key
RequestMetadata == {DictSet(EmptyDict, "name", value) : value \in {"a", None}}

\* POST /sessions with metadata
CreateSessionWithMetadata ==
    /\ allocated # SessionIds
    /\ \E c \in Callers, metadata \in RequestMetadata :
        LET r == create_session_route(World, uuid4(allocated), c.user_id, c.user_type,
                                      metadata)
        IN  /\ SetWorld(r.w)
            /\ ret' = [op |-> "create_session", session_id |-> r.session_id, ok |-> TRUE]
            /\ UNCHANGED <<turn, clients>>

GetSession ==
    \E session_id \in KnownIds :
        LET r == get_session(World, session_id)
        IN  /\ SetWorld(r.w)
            /\ ret' = [op |-> "get_session", session_id |-> session_id, ok |-> r.found,
                       data |-> r.data]
            /\ UNCHANGED <<turn, clients>>

\* str(n) for n < 100, two digits
Digits == <<"0", "1", "2", "3", "4", "5", "6", "7", "8", "9">>
Numeral(n) == <<Digits[(n \div 10) + 1], Digits[(n % 10) + 1]>>

\* the n-th message appended to a session carries the text of n
AddMessage(limit) ==
    /\ TotalAppended < limit
    /\ \E session_id \in KnownIds :
        LET n == IF session_id \in SessionIds THEN Len(appended[session_id]) + 1 ELSE 0
            role == IF n % 2 = 1 THEN "user" ELSE "assistant"
            r == add_message_to_history(World, session_id, role, Numeral(n))
        IN  /\ SetWorld(r.w)
            /\ ret' = [op |-> "add_message_to_history", session_id |-> session_id,
                       ok |-> r.ok]
            /\ UNCHANGED <<turn, clients>>

SetMetadata ==
    \E session_id \in KnownIds, key \in MetaKeys, value \in MetaValues :
        LET r == set_metadata(World, session_id, key, value)
        IN  /\ SetWorld(r.w)
            /\ ret' = [op |-> "set_metadata", session_id |-> session_id, ok |-> r.ok,
                       key |-> key, value |-> value]
            /\ UNCHANGED <<turn, clients>>

GetMetadata ==
    \E session_id \in KnownIds, key \in MetaKeys :
        LET r == get_metadata(World, session_id, key)
        IN  /\ SetWorld(r.w)
            /\ ret' = [op |-> "get_metadata", session_id |-> session_id, ok |-> r.value # None,
                       key |-> key, value |-> r.value]
            /\ UNCHANGED <<turn, clients>>

GetHistory ==
    \E session_id \in KnownIds :
        LET r == get_history(World, session_id)
        IN  /\ SetWorld(r.w)
            /\ ret' = [op |-> "get_history", session_id |-> session_id, ok |-> TRUE,
                       history |-> r.history]
            /\ UNCHANGED <<turn, clients>>

DeleteSession ==
    \E session_id \in KnownIds :
        LET r == delete_session(World, session_id)
        IN  /\ SetWorld(r.w)
            /\ ret' = [op |-> "delete_session", session_id |-> session_id, ok |-> r.ok]
            /\ UNCHANGED <<turn, clients>>

\* the clock moves on by half a session lifetime while no call is made
Tick ==
    /\ now < MaxTicks * TickStep
    /\ now' = now + TickStep
    /\ UNCHANGED <<redis, allocated, appended, touched, ret, turn, clients>>

NextStore ==
    \/ CreateSession
    \/ GetSession
    \/ AddMessage(MaxStoreAppends)
    \/ SetMetadata
    \/ GetMetadata
    \/ GetHistory
    \/ DeleteSession

SpecStore == InitStore /\ [][NextStore]_vars

\* no session was created yet
NoneCreated == allocated = {}

\* one session that is created, read, written and deleted while time passes
NextExpiry ==
    \/ (NoneCreated /\ CreateSession)
    \/ GetSession
    \/ SetMetadata
    \/ DeleteSession
    \/ Tick

SpecExpiry == InitStore /\ [][NextExpiry]_vars

\* sessions that are created, with and without metadata, and deleted while time
\* passes
NextLifecycle ==
    \/ CreateSession
    \/ CreateSessionWithMetadata
    \/ DeleteSession
    \/ Tick

SpecLifecycle == InitStore /\ [][NextLifecycle]_vars

\* sessions that only have messages appended
NextHistory ==
    \/ CreateSession
    \/ AddMessage(MaxAppends)

SpecHistory == InitStore /\ [][NextHistory]_vars

(***************************************************************************)
(* One process_message call, made in any state the store's interface can   *)
(* bring about, and followed through its steps: one step per collaborator  *)
(* call that is awaited; the store calls between two awaits belong to the  *)
(* step.                                                                   *)
(***************************************************************************)
\* lines 29-48
Begin ==
    /\ turn.pc = "idle"
    /\ UNCHANGED clients
    /\ \E request \in Requests(KnownIds) :
        /\ NeedsCreate(World, request) => allocated # SessionIds
        /\ LET r == BeginTurn(World, turn, request)
           IN  /\ SetWorld(r.w)
               /\ turn' = r.t
               /\ ret' = [op |-> "process_message", session_id |-> request.session_id,
                          ok |-> ~r.t.pc = "failed"]

\* line 51
Classify(outcomes) ==
    /\ turn.pc = "classify"
    /\ \E outcome \in outcomes : turn' = ClassifyTurn(turn, outcome)
    /\ UNCHANGED <<redis, now, allocated, appended, touched, ret, clients>>

\* lines 53-67
ResolveName ==
    /\ turn.pc = "resolve"
    /\ \E got \in GetPatientsOutcomes :
        turn' = ResolveNameTurn(turn, [QuietBackend EXCEPT !.patients = got])
    /\ UNCHANGED <<redis, now, allocated, appended, touched, ret, clients>>

\* lines 69-71
Persist ==
    /\ turn.pc = "persist"
    /\ \E store \in StoreOutcomes :
        LET r == PersistTurn(World, turn, store)
        IN  /\ SetWorld(r.w)
            /\ turn' = r.t
    /\ UNCHANGED <<ret, clients>>

\* the answers the backend can give to the reads the handler of this turn makes
DispatchOutcomes(t) ==
    LET asked == Answered(RoleHandler(t.intent, t.parameters, t.user_id, t.user_type,
                                      QuietBackend).calls, QuietBackend)
        Of(f, outcomes) == IF f \in asked THEN outcomes ELSE {QuietBackend[f]}
    IN  {[QuietBackend EXCEPT !.patient = a, !.allergies = b, !.medications = c,
                              !.schedule = d, !.missed = e, !.tests = f,
                              !.appointments = g, !.doctors = h] :
            a \in Of("patient", GetPatientOutcomes),
            b \in Of("allergies", GetPatientOutcomes),
            c \in Of("medications", GetPatientOutcomes),
            d \in Of("schedule", ListOutcomes(ScheduleData)),
            e \in Of("missed", ListOutcomes(MissedData)),
            f \in Of("tests", ListOutcomes(TestResultData)),
            g \in Of("appointments", ListOutcomes(AppointmentData)),
            h \in Of("doctors", ListOutcomes(DoctorData))}

\* line 74, _handle_intent lines 134-359
Dispatch ==
    /\ turn.pc = "dispatch"
    /\ \E be \in DispatchOutcomes(turn) :
        LET r == DispatchTurn(World, turn, be)
        IN  /\ SetWorld(r.w)
            /\ turn' = r.t
    /\ UNCHANGED <<ret, clients>>

\* _handle_intent lines 361-369
Generate ==
    /\ turn.pc = "generate"
    /\ \E outcome \in GenerationOutcomes : turn' = GenerateTurn(turn, outcome)
    /\ UNCHANGED <<redis, now, allocated, appended, touched, ret, clients>>

\* lines 76-87
Reply ==
    /\ turn.pc = "reply"
    /\ LET r == ReplyTurn(World, turn)
       IN  /\ SetWorld(r.w)
           /\ turn' = r.t
    /\ UNCHANGED <<ret, clients>>

\* the store's interface is called from outside before the turn
Outside == turn.pc = "idle"

NextTurn ==
    \/ Begin
    \/ Classify(ClassifierOutcomes)
    \/ ResolveName
    \/ Persist
    \/ Dispatch
    \/ Generate
    \/ Reply
    \/ (Outside /\ CreateSession)
    \/ (Outside /\ DeleteSession)

SpecTurn == InitStore /\ [][NextTurn]_vars

\* a delete request for the session of the turn is served while the turn awaits
\* the classification call or the name search
DeleteUnderTurn ==
    /\ turn.pc = "persist"
    /\ Live(turn.session_id)
    /\ LET r == delete_session(World, turn.session_id)
       IN  /\ SetWorld(r.w)
           /\ ret' = [op |-> "delete_session", session_id |-> turn.session_id, ok |-> r.ok]
           /\ UNCHANGED <<turn, clients>>

\* one process_message call, and a delete_session call that overtakes it
NextInterrupted ==
    \/ Begin
    \/ Classify(ClassifierOutcomes)
    \/ ResolveName
    \/ DeleteUnderTurn
    \/ Persist
    \/ Dispatch
    \/ Generate
    \/ Reply
    \/ (Outside /\ CreateSession)

SpecInterrupted == InitStore /\ [][NextInterrupted]_vars

(***************************************************************************)
(* C1: after N appends to a live session, with no other writer of its      *)
(* history, the history is exactly the last min(N, 20) appended messages   *)
(* in the order they were appended.                                        *)
(***************************************************************************)
LastN(s, n) == IF Len(s) > n THEN SubSeq(s, Len(s) - n + 1, Len(s)) ELSE s

C1_HistoryIsLast20 ==
    \A s \in SessionIds :
        Live(s) => /\ Session(s).history = LastN(appended[s], 20)
                   /\ Len(Session(s).history) = IF Len(appended[s]) < 20
                                                 THEN Len(appended[s]) ELSE 20

\* a session that has had more than 20 messages appended
C1_Witness ==
    \E s \in SessionIds :
        /\ Live(s)
        /\ Len(appended[s]) >= 22
        /\ ret.op = "add_message_to_history" /\ ret.session_id = s /\ ret.ok

(***************************************************************************)
(* C2: every store operation and every step of a process_message turn      *)
(* addressed to session A leaves the stored record of every other session  *)
(* B as it was, and what it returns and what it stores for the other       *)
(* sessions is the same when B holds other history and metadata.           *)
(***************************************************************************)
\* the store with session b holding other contents: one more message in its
\* history and another last_intent in its metadata
OtherContents(w, b) ==
    add_message_to_history(set_metadata(w, b, "last_intent", "help").w,
                           b, "user", MsgPatientJane).w

\* the keyspace without the record of session b
Others(w, b) == [k \in (DOMAIN w.redis) \ {Key(b)} |-> w.redis[k]]

\* session b has the same record, or none, in both stores
Untouched(before, after, b) ==
    /\ (Key(b) \in DOMAIN before.redis) = (Key(b) \in DOMAIN after.redis)
    /\ Key(b) \in DOMAIN before.redis => after.redis[Key(b)] = before.redis[Key(b)]

\* what a call returned, the store left aside
Outcome(r) == [k \in (DOMAIN r) \ {"w"} |-> r[k]]

\* r is the call made in store w, r2 the same call made in store w2
Independent(w, call, w2, call2, b) ==
    LET r == call
        r2 == call2
    IN  /\ Untouched(w, r.w, b)
        /\ Untouched(w2, r2.w, b)
        /\ Outcome(r) = Outcome(r2)
        /\ Others(r.w, b) = Others(r2.w, b)
        /\ r.w.allocated = r2.w.allocated

\* the i-th call of the store's interface on session a
StoreCalls == 1 .. 7
StoreCall(w, a, i) ==
    CASE i = 1 -> get_session(w, a)
      [] i = 2 -> update_session(w, a, [NoSession EXCEPT !.user_id = "u1",
                                                         !.user_type = "doctor"])
      [] i = 3 -> add_message_to_history(w, a, "user", MsgThanks)
      [] i = 4 -> set_metadata(w, a, "last_intent", "thanks")
      [] i = 5 -> get_metadata(w, a, "last_intent")
      [] i = 6 -> get_history(w, a)
      [] OTHER -> delete_session(w, a)

\* the step of the turn in progress that reads or writes the store
TurnStep(w, t) ==
    IF t.pc = "persist" THEN PersistTurn(w, t, "ok")
    ELSE IF t.pc = "dispatch" THEN DispatchTurn(w, t, QuietBackend)
    ELSE IF t.pc = "reply" THEN ReplyTurn(w, t)
    ELSE [w |-> w, t |-> t]

\* the states in which the store's interface is called: before the turn, after
\* the turn has taken the message, and after it has replied
StoreWritten == turn.pc \in {"idle", "classify", "done"}

C2_SessionsAreIsolated ==
    \A b \in allocated :
        Live(b) =>
            LET w2 == OtherContents(World, b)
            IN  /\ StoreWritten =>
                     \A a \in KnownIds \ {b} :
                       \A i \in StoreCalls :
                           Independent(World, StoreCall(World, a, i),
                                       w2, StoreCall(w2, a, i), b)
                /\ (StoreWritten /\ allocated # SessionIds) =>
                       Independent(World, create_session(World, uuid4(allocated), "u2", "patient"),
                                   w2, create_session(w2, uuid4(allocated), "u2", "patient"), b)
                /\ turn.pc = "idle" =>
                       \A request \in Requests(KnownIds \ {b}) :
                           (NeedsCreate(World, request) => allocated # SessionIds) =>
                               Independent(World, BeginTurn(World, turn, request),
                                           w2, BeginTurn(w2, turn, request), b)
                /\ (turn.pc \notin {"idle", "failed"} /\ turn.session_id # b) =>
                       Independent(World, TurnStep(World, turn), w2, TurnStep(w2, turn), b)

\* a turn on one session has replied while another session is live
C2_Witness ==
    /\ turn.pc = "done"
    /\ Live(turn.session_id)
    /\ Len(Session(turn.session_id).history) = 2
    /\ \E b \in allocated \ {turn.session_id} : Live(b)

(***************************************************************************)
(* C3: a process_message call that cannot resolve a live session (no       *)
(* session_id, or a session_id the store does not have) and lacks user_id  *)
(* or user_type fails with the validation error before the turn starts:    *)
(* no session is created, nothing is written to the store, and no          *)
(* collaborator is called, then or later.                                  *)
(***************************************************************************)
\* the store in the state a step leads to
WorldNext ==
    [redis |-> redis', now |-> now', allocated |-> allocated', appended |-> appended',
     touched |-> touched']

\* the step that takes the call
CallTaken == turn.pc = "idle" /\ turn'.pc # "idle"

IdentityMissing(request) == request.user_id = Missing \/ request.user_type = Missing

C3_Unresolvable ==
    /\ CallTaken
    /\ turn'.request.session_id = NoSessionId \/ ~Live(turn'.request.session_id)
    /\ IdentityMissing(turn'.request)

C3_ValidationErrorBeforeTurn ==
    /\ [][C3_Unresolvable =>
            /\ turn'.pc = "failed"
            /\ turn'.error = "ValueError"
            /\ turn'.created = {}
            /\ turn'.calls = <<>>
            /\ UNCHANGED <<redis, allocated, appended>>]_vars
    /\ [][(turn.pc = "failed" /\ turn.error = "ValueError") =>
            UNCHANGED <<redis, allocated, appended, turn>>]_vars

\* the call named a deleted session and came without the role
C3_Witness ==
    /\ turn.pc = "failed"
    /\ turn.error = "ValueError"
    /\ turn.request.session_id \in allocated
    /\ ~Live(turn.request.session_id)
    /\ turn.request.user_id # Missing
    /\ turn.request.user_type = Missing

(***************************************************************************)
(* C4: a process_message call with a session_id the store does not have    *)
(* and with both user_id and user_type creates a session under a fresh id  *)
(* that differs from the one supplied, runs the whole turn on it (both     *)
(* history entries and the metadata go to it), returns the new id, and the *)
(* supplied id stays not found.                                            *)
(***************************************************************************)
C4_NotFoundWithIdentity ==
    /\ CallTaken
    /\ turn'.request.session_id # NoSessionId
    /\ ~Live(turn'.request.session_id)
    /\ ~IdentityMissing(turn'.request)

\* the turn in progress runs on a session created for a call that named another
C4_Replaced ==
    /\ turn.pc \notin {"idle", "failed"} \/ turn.error \in {"ClassificationError", "GenerationError"}
    /\ turn.request.session_id # NoSessionId
    /\ turn.created # {}

C4_FreshSessionReplacesMissing ==
    /\ [][C4_NotFoundWithIdentity =>
            /\ turn'.pc = "classify"
            /\ turn'.created = {turn'.session_id}
            /\ turn'.session_id \notin allocated
            /\ turn'.session_id # turn'.request.session_id
            /\ allocated' = allocated \cup {turn'.session_id}
            /\ LiveIn(WorldNext, turn'.session_id)
            /\ ~LiveIn(WorldNext, turn'.request.session_id)
            /\ SessionIn(WorldNext, turn'.session_id).user_id = turn'.request.user_id
            /\ SessionIn(WorldNext, turn'.session_id).user_type = turn'.request.user_type]_vars
    /\ [](C4_Replaced =>
            /\ turn.created = {turn.session_id}
            /\ turn.session_id # turn.request.session_id
            /\ ~Live(turn.request.session_id)
            /\ Live(turn.session_id)
            /\ Len(Session(turn.session_id).history) >= 1
            /\ Session(turn.session_id).history[1].role = "user"
            /\ Session(turn.session_id).history[1].content = turn.request.message
            /\ turn.pc \in {"dispatch", "generate", "reply", "done"} =>
                   /\ DOMAIN Session(turn.session_id).metadata
                          = {"last_intent", "intent_parameters"}
                   /\ Session(turn.session_id).metadata["last_intent"] = turn.intent
                   /\ Session(turn.session_id).metadata["intent_parameters"] = turn.parameters
            /\ turn.pc = "done" =>
                   /\ Len(Session(turn.session_id).history) = 2
                   /\ Session(turn.session_id).history[2].role = "assistant"
                   /\ Session(turn.session_id).history[2].content = turn.text
                   /\ Response(turn).session_id = turn.session_id
                   /\ Response(turn).session_id # turn.request.session_id)

\* the call named a deleted session, and the turn replied from a new one
C4_Witness ==
    /\ turn.pc = "done"
    /\ turn.request.session_id \in allocated
    /\ ~Live(turn.request.session_id)
    /\ turn.created = {turn.session_id}
    /\ Live(turn.session_id)
    /\ Len(Session(turn.session_id).history) = 2

(***************************************************************************)
(* C5: on a session that exists, the role and the user of a turn are the   *)
(* ones stored in the session: two process_message calls made in the same  *)
(* store with the same message and session_id, whatever user_id and        *)
(* user_type the callers supply, and given the same answers by the         *)
(* collaborators, make the same calls, give the same response or the same  *)
(* failure, and leave the same store.                                      *)
(***************************************************************************)
\* every backend read fails
FailingBackend ==
    [patients |-> [ok |-> FALSE, patients |-> <<>>],
     patient |-> [ok |-> FALSE, patient |-> PatientJane],
     allergies |-> [ok |-> FALSE, patient |-> PatientJane],
     medications |-> [ok |-> FALSE, patient |-> PatientJane],
     schedule |-> [ok |-> FALSE, items |-> <<>>],
     missed |-> [ok |-> FALSE, items |-> <<>>],
     tests |-> [ok |-> FALSE, items |-> <<>>],
     appointments |-> [ok |-> FALSE, items |-> <<>>],
     doctors |-> [ok |-> FALSE, items |-> <<>>]]

\* the backend finds one patient by name; the other reads succeed
FindingBackend == [QuietBackend EXCEPT !.patients = [ok |-> TRUE, patients |-> <<PatientJane>>]]

\* the classification call raises, or returns each intent with parameters
C5_Classifications ==
    {o \in ClassifierOutcomes :
        o.raised \/ DOMAIN o.content.result = {"intent", "parameters"}
                 \/ DOMAIN o.content.result = {"intent"}}

C5_Environments ==
    Environments(C5_Classifications, {FindingBackend, FailingBackend}, GenerationOutcomes,
                 StoreOutcomes)

\* what a turn did and returned, apart from the request it was given
Observed(t) ==
    [pc |-> t.pc, error |-> t.error, calls |-> t.calls, response |-> Response(t),
     user_id |-> t.user_id, user_type |-> t.user_type, context |-> t.context,
     llm_messages |-> t.llm_messages]

\* the call with this message on this session that supplies this identity
RequestOf(message, session_id, c) ==
    [message |-> message, session_id |-> session_id,
     user_id |-> c.user_id, user_type |-> c.user_type]

C5_IdentityIsTheSessions ==
    turn.pc = "idle" =>
        \A session_id \in allocated :
            Live(session_id) =>
                \A message \in Messages, env \in C5_Environments :
                    LET first == CHOOSE c \in Identities : TRUE
                        r == RunTurn(World, RequestOf(message, session_id, first), env)
                    IN  /\ r.t.user_id = Session(session_id).user_id
                        /\ r.t.user_type = Session(session_id).user_type
                        /\ \A c \in Identities \ {first} :
                            LET r2 == RunTurn(World, RequestOf(message, session_id, c), env)
                            IN  /\ r2.w = r.w
                                /\ Observed(r2.t) = Observed(r.t)

\* a patient's session answered a call that claimed the doctor role
C5_Witness ==
    /\ turn.pc = "done"
    /\ turn.created = {}
    /\ turn.request.user_type = "doctor"
    /\ turn.request.user_id = "u1"
    /\ turn.user_type = "patient"
    /\ turn.user_id = "u2"
    /\ Session(turn.session_id).user_type = "patient"
    /\ Call("recognize_intent", "patient") \in {turn.calls[i] : i \in 1 .. Len(turn.calls)}

(***************************************************************************)
(* C6: a turn of a patient's session emits no display_patient_info,        *)
(* display_matched_patients, display_schedule or                           *)
(* display_missed_appointments action and makes no clinician read (doctor  *)
(* schedule, missed appointments, patient lookup by name), whatever intent *)
(* the classifier returns; a turn of a doctor's session emits no           *)
(* display_appointments, display_medications or                            *)
(* initiate_appointment_scheduling action.                                 *)
(***************************************************************************)
ClinicianActions ==
    {"display_patient_info", "display_matched_patients", "display_schedule",
     "display_missed_appointments"}
PatientActions ==
    {"display_appointments", "display_medications", "initiate_appointment_scheduling"}
ClinicianReads == {"get_doctor_schedule", "get_missed_appointments", "find_patient_by_name"}

ActionTypes(t) == {t.actions[i].type : i \in 1 .. Len(t.actions)}
CallsMade(t) == {t.calls[i].fn : i \in 1 .. Len(t.calls)}

\* the intent string of the payload the classification call returned
ReturnedIntent(t) ==
    IF ~t.classifier.raised /\ t.classifier.content.object
       /\ "intent" \in DOMAIN t.classifier.content.result
    THEN t.classifier.content.result["intent"]
    ELSE "none"

C6_RoleGatesHandlers ==
    /\ turn.user_type = "patient" =>
           /\ ActionTypes(turn) \cap ClinicianActions = {}
           /\ CallsMade(turn) \cap ClinicianReads = {}
    /\ turn.user_type = "doctor" =>
           ActionTypes(turn) \cap PatientActions = {}

\* a patient's turn replied after the classifier returned a clinician intent
C6_Witness ==
    /\ turn.pc = "done"
    /\ turn.user_type = "patient"
    /\ ReturnedIntent(turn) = "doctor_patient_info"
    /\ "patient_id" \in DOMAIN turn.parameters
    /\ turn.actions = <<>>

(***************************************************************************)
(* C7: when the classifier returns an intent of the other role, the turn   *)
(* treats it as unknown: the intent of the response and the last_intent in *)
(* the metadata are `unknown`, and the turn gets the handling of a general *)
(* intent (the role is among the facts).                                   *)
(***************************************************************************)
ForeignIntent(t) ==
    \/ t.user_type = "patient" /\ ReturnedIntent(t) \in DoctorIntents
    \/ t.user_type = "doctor" /\ ReturnedIntent(t) \in PatientIntents

C7_ForeignIntentIsUnknown ==
    (turn.pc = "done" /\ ForeignIntent(turn)) =>
        /\ Response(turn).intent = "unknown"
        /\ Session(turn.session_id).metadata["last_intent"] = "unknown"
        /\ "user_type" \in DOMAIN turn.context

(***************************************************************************)
(* C8: when the classification call raises, no exception reaches the       *)
(* orchestrator: recognize_intent returns (unknown, {}) and the turn goes  *)
(* on to the handling of a general intent.                                 *)
(***************************************************************************)
C8_ClassifierFailureIsAbsorbed ==
    turn.classifier.raised =>
        /\ turn.pc # "failed" \/ turn.error = "GenerationError"
        /\ turn.intent = "unknown"
        /\ turn.parameters = EmptyDict

(***************************************************************************)
(* C9: for a malformed payload of a successful classification call (not    *)
(* JSON, a JSON object without `intent`, an `intent` outside the           *)
(* enumeration), recognize_intent returns `unknown`.                       *)
(***************************************************************************)
Malformed(content) ==
    \/ ~content.json
    \/ ~content.object
    \/ "intent" \notin DOMAIN content.result
    \/ content.result["intent"] \notin IntentType

\* recognize_intent has just returned from a successful call
Recognized == turn.pc = "resolve" /\ ~turn.classifier.raised

\* C9 as stated: the parameters are empty, also when the payload carries a
\* non-empty `parameters` object
C9_MalformedGivesNoParameters ==
    (Recognized /\ Malformed(turn.classifier.content)) =>
        /\ turn.intent = "unknown"
        /\ turn.parameters = EmptyDict

\* C9, amended: the intent is `unknown`; the parameters are the payload's
\* `parameters` object when the payload is a JSON object that has one, and
\* are empty otherwise
C9_MalformedGivesUnknown ==
    (Recognized /\ Malformed(turn.classifier.content)) =>
        /\ turn.intent = "unknown"
        /\ turn.parameters =
               IF turn.classifier.content.json /\ turn.classifier.content.object
                  /\ "parameters" \in DOMAIN turn.classifier.content.result
               THEN turn.classifier.content.result["parameters"]
               ELSE EmptyDict

\* an intent outside the enumeration came with a parameters object
C9_Witness ==
    /\ Recognized
    /\ ReturnedIntent(turn) = "book_flight"
    /\ "parameters" \in DOMAIN turn.classifier.content.result
    /\ turn.intent = "unknown"
    /\ turn.parameters # EmptyDict

(***************************************************************************)
(* C10: when the allergy read of a doctor_patient_info turn fails and the  *)
(* patient record read succeeds, the turn goes on to the generation call,  *)
(* and the facts passed to it hold an `error` fact together with the       *)
(* patient and the medications.                                            *)
(***************************************************************************)
AllergyReadFailed(t) ==
    /\ t.pc \in {"generate", "reply", "done"}
    /\ t.user_type = "doctor"
    /\ t.intent = "doctor_patient_info"
    /\ "get_patient_allergies" \in CallsMade(t)
    /\ t.backend.patient.ok
    /\ ~t.backend.allergies.ok
    /\ t.backend.medications.ok

C10_AllergyFailureIsAnErrorFact ==
    AllergyReadFailed(turn) =>
        /\ "error" \in DOMAIN turn.context
        /\ "patient" \in DOMAIN turn.context
        /\ "medications" \in DOMAIN turn.context

(***************************************************************************)
(* C11: no failure of a backend read aborts a turn.  Once the turn is past *)
(* the classification call, every step goes on to the next one whatever    *)
(* the backend answers, the name search included, unless the session store *)
(* or the generation call fails; the turn then returns its response.  A    *)
(* turn only ever ends in an exception for a missing identity, a failed    *)
(* classification call, a failed store write or a failed generation call.  *)
(***************************************************************************)
\* the backend reads of the turn that raised
FailedReads(t) ==
    {f \in Answered(t.calls, t.backend) \cap DOMAIN t.backend : ~t.backend[f].ok}

C11_NoBackendFailureAborts ==
    /\ [][/\ turn.pc = "resolve" => turn'.pc = "persist"
          /\ (turn.pc = "persist" /\ turn'.persisted # "error") => turn'.pc = "dispatch"
          /\ turn.pc = "dispatch" => turn'.pc = "generate"
          /\ (turn.pc = "generate" /\ turn'.error # "GenerationError") => turn'.pc = "reply"
          /\ turn.pc = "reply" => /\ turn'.pc = "done"
                                  /\ Response(turn').text = ReplyText]_vars
    /\ [](turn.pc = "failed" =>
            turn.error \in {"ValueError", "ClassificationError", "StoreError",
                            "GenerationError"})

\* a turn that returned its response although the name search and the read of
\* its handler both raised
C11_Witness ==
    /\ turn.pc = "done"
    /\ {"find_patient_by_name", "get_doctor_schedule"} \subseteq CallsMade(turn)
    /\ {"patients", "schedule"} \subseteq FailedReads(turn)
    /\ "error" \in DOMAIN turn.context

(***************************************************************************)
(* C12: a backend read of a handler that fails costs the turn only its own *)
(* fact and leaves an `error` fact; the facts of the reads that succeeded  *)
(* are still passed to the generation call.  In a doctor_test_results turn *)
(* whose test-result read succeeds and whose patient-record read fails,    *)
(* the facts hold test_results next to error.                              *)
(***************************************************************************)
\* a doctor_test_results turn: the test results were read, the patient record was not
PatientReadFailedAfterTests(t) ==
    /\ t.pc \in {"generate", "reply", "done"}
    /\ t.user_type = "doctor"
    /\ t.intent = "doctor_test_results"
    /\ {"get_patient_test_results", "get_patient"} \subseteq CallsMade(t)
    /\ t.backend.tests.ok
    /\ ~t.backend.patient.ok

C12_SucceededFactsAreKept ==
    PatientReadFailedAfterTests(turn) =>
        /\ "error" \in DOMAIN turn.context
        /\ "patient" \notin DOMAIN turn.context
        /\ "test_results" \in DOMAIN turn.context
        /\ turn.context["test_results"] = TestResultData

(***************************************************************************)
(* C13: a generation call that fails fails the whole turn.  The exception  *)
(* reaches the caller of process_message, which gets no response, no reply *)
(* text exists, and the history of the session gets no assistant entry     *)
(* for the turn: it ends with the inbound message.                         *)
(***************************************************************************)
\* the roles of the entries of a history
Roles(history) == {history[i].role : i \in 1 .. Len(history)}

C13_GenerationFailureFailsTheTurn ==
    turn.error = "GenerationError" =>
        /\ turn.pc = "failed"
        /\ turn.text = <<>>
        /\ Call("add_message_to_history", "assistant") \notin
               {turn.calls[i] : i \in 1 .. Len(turn.calls)}
        /\ Live(turn.session_id)
        /\ "assistant" \notin Roles(Session(turn.session_id).history)
        /\ "assistant" \notin Roles(appended[turn.session_id])

\* the generation call of a turn with a gathered fact failed
C13_Witness ==
    /\ turn.pc = "failed"
    /\ turn.error = "GenerationError"
    /\ "schedule" \in DOMAIN turn.context
    /\ Roles(Session(turn.session_id).history) = {"user"}

(***************************************************************************)
(* C14: what a turn wrote before it failed stays written.  After a turn    *)
(* that failed in the generation call, the last entry of the session's     *)
(* history is the inbound message of the turn, with role user, and the     *)
(* metadata holds the last_intent and the intent_parameters of the turn.   *)
(***************************************************************************)
\* the last entry of a history, without its timestamp
LastEntry(history) ==
    [role |-> history[Len(history)].role, content |-> history[Len(history)].content]

C14_NoRollback ==
    (turn.pc = "failed" /\ turn.error = "GenerationError") =>
        /\ Live(turn.session_id)
        /\ Session(turn.session_id).history # <<>>
        /\ LastEntry(Session(turn.session_id).history) =
               [role |-> "user", content |-> turn.message]
        /\ {"last_intent", "intent_parameters"} \subseteq
               DOMAIN Session(turn.session_id).metadata
        /\ Session(turn.session_id).metadata["last_intent"] = turn.intent
        /\ Session(turn.session_id).metadata["intent_parameters"] = turn.parameters

\* a failed turn left the patient its name search resolved in the metadata
C14_Witness ==
    /\ turn.pc = "failed"
    /\ turn.error = "GenerationError"
    /\ "find_patient_by_name" \in CallsMade(turn)
    /\ "patient_id" \in DOMAIN Session(turn.session_id).metadata["intent_parameters"]
    /\ "parameters" \notin DOMAIN turn.classifier.content.result

(***************************************************************************)
(* C15: the steps of a turn happen in the order of the protocol.  The      *)
(* inbound message is appended to the history before the classification    *)
(* call; the classification call returns before last_intent and            *)
(* intent_parameters are written; the metadata is written before any       *)
(* backend read of the turn, the name search included; every backend read  *)
(* is over before the generation call; the reply is appended to the        *)
(* history only after the generation call.                                 *)
(***************************************************************************)
\* the reads of the backend client a turn can make
BackendReads ==
    {"find_patient_by_name", "get_patient", "get_patient_allergies",
     "get_patient_medications", "get_doctor_schedule", "get_missed_appointments",
     "get_patient_test_results", "get_appointments", "get_doctors"}

\* where in the log of a turn the calls of these functions are
Positions(t, fns) == {i \in 1 .. Len(t.calls) : t.calls[i].fn \in fns}
PositionsOf(t, call) == {i \in 1 .. Len(t.calls) : t.calls[i] = call}

\* every one of the earlier calls was made before every one of the later calls
AllBefore(earlier, later) == \A i \in earlier, j \in later : i < j

C15_StepsInProtocolOrder ==
    LET inbound == PositionsOf(turn, Call("add_message_to_history", "user"))
        classified == Positions(turn, {"recognize_intent"})
        persisted == Positions(turn, {"set_metadata"})
        reads == Positions(turn, BackendReads)
        generated == Positions(turn, {"process_chat"})
        outbound == PositionsOf(turn, Call("add_message_to_history", "assistant"))
    IN  /\ classified # {} => inbound # {}
        /\ AllBefore(inbound, classified)
        /\ persisted # {} => classified # {}
        /\ AllBefore(classified, persisted)
        /\ reads # {} => persisted # {}
        /\ AllBefore(persisted, reads)
        /\ generated # {} => (turn.pc \in {"failed", "reply", "done"})
        /\ AllBefore(reads, generated)
        /\ outbound # {} => generated # {}
        /\ AllBefore(generated, outbound)

(***************************************************************************)
(* C16: a successful turn, run alone on a live session, changes the store  *)
(* in exactly this way: the history of the session gets the inbound        *)
(* message with role user and then the reply with role assistant (the      *)
(* last 20 entries are kept), and the metadata keys last_intent and        *)
(* intent_parameters get the intent and the parameters of the turn; the    *)
(* rest of the session's record and every other session are unchanged.     *)
(* The response carries the text of the appended assistant entry and the   *)
(* stored last_intent.                                                     *)
(***************************************************************************)
\* the session after n earlier messages and an earlier turn's metadata, as one
\* update_session call leaves it
Earlier(w, session_id, n) ==
    update_session(w, session_id,
        [SessionIn(w, session_id) EXCEPT
            !.history = [i \in 1 .. n |->
                            [role |-> IF i % 2 = 1 THEN "user" ELSE "assistant",
                             content |-> Numeral(i), timestamp |-> w.now]],
            !.metadata = DictSet(DictSet(@, "last_intent", "help"), "name", "a")]).w

\* how long the history is before the turn: empty, one short of the cap, at the cap
EarlierLengths == {0, HistoryLimit - 1, HistoryLimit}

\* the collaborators of a turn that succeeds
SucceedingEnvironments ==
    Environments({o \in C5_Classifications : ~o.raised}, {FindingBackend, FailingBackend},
                 {g \in GenerationOutcomes : ~g.raised}, {"ok"})

\* the record of a session after a turn t that began on the record `before`
AfterTurn(before, t, at) ==
    [before EXCEPT
        !.history = LastN(@ \o <<[role |-> "user", content |-> t.message, timestamp |-> at],
                                 [role |-> "assistant", content |-> t.text, timestamp |-> at]>>,
                          HistoryLimit),
        !.metadata = DictSet(DictSet(@, "last_intent", t.intent),
                             "intent_parameters", t.parameters)]

C16_EffectsOfASuccessfulTurn ==
    /\ turn.pc = "idle" =>
        \A session_id \in allocated :
            Live(session_id) =>
                \A n \in EarlierLengths, message \in Messages, env \in SucceedingEnvironments :
                    LET w == Earlier(World, session_id, n)
                        c == CHOOSE c \in Callers : TRUE
                        r == RunTurn(w, RequestOf(message, session_id, c), env)
                        after == SessionIn(r.w, session_id)
                    IN  /\ r.t.pc = "done"
                        /\ LiveIn(r.w, session_id)
                        /\ after = AfterTurn(SessionIn(w, session_id), r.t, w.now)
                        /\ Others(r.w, session_id) = Others(w, session_id)
                        /\ r.w.allocated = w.allocated
                        /\ Response(r.t).session_id = session_id
                        /\ Response(r.t).text = after.history[Len(after.history)].content
                        /\ after.history[Len(after.history)].role = "assistant"
                        /\ Response(r.t).intent = after.metadata["last_intent"]
    /\ (turn.pc = "done" /\ turn.created = {}) =>
        /\ Live(turn.session_id)
        /\ Session(turn.session_id).history =
               <<[role |-> "user", content |-> turn.message, timestamp |-> now],
                 [role |-> "assistant", content |-> Response(turn).text, timestamp |-> now]>>
        /\ Session(turn.session_id).metadata =
               DictSet(DictSet(EmptyDict, "last_intent", Response(turn).intent),
                       "intent_parameters", turn.parameters)

\* a turn on a session that existed before it returned its response
C16_Witness ==
    /\ turn.pc = "done"
    /\ turn.created = {}
    /\ turn.request.session_id = turn.session_id
    /\ Len(Session(turn.session_id).history) = 2
    /\ Session(turn.session_id).metadata["last_intent"] = "patient_medication_info"
    /\ Response(turn).text = ReplyText

AnyIds == SessionIds \cup {ForeignId}

NeverExisted(session_id) == session_id \notin allocated
Deleted(session_id) == session_id \in allocated /\ Key(session_id) \notin DOMAIN redis
\* the session was last created, read or written a full lifetime ago or longer
Expired(session_id) ==
    /\ session_id \in allocated
    /\ Key(session_id) \in DOMAIN redis
    /\ now >= touched[session_id] + context_ttl

\* the calls of the store's interface that write a session
Writers == {2, 3, 4}

C18_WritesNeverCreate ==
    \A session_id \in AnyIds :
        (NeverExisted(session_id) \/ Deleted(session_id) \/ Expired(session_id)) =>
            \A i \in Writers :
                LET r == StoreCall(World, session_id, i)
                IN  /\ ~r.ok
                    /\ r.w.redis = redis
                    /\ ~LiveIn(r.w, session_id)
                    /\ ~get_session(r.w, session_id).found

\* set_metadata was refused on a session that has expired
C18_Witness ==
    /\ ret.op = "set_metadata"
    /\ ~ret.ok
    /\ ret.session_id \in SessionIds
    /\ Expired(ret.session_id)

(***************************************************************************)
(* C19: a successful get_session gives the session its full lifetime of 24 *)
(* hours again.  A session read at time t is found by every read made      *)
(* before t + TTL, so a session that is read, again and again, less than a *)
(* TTL after the read before is never lost.                                *)
(***************************************************************************)
\* the times before `from` + TTL at which the clock can stand
TimesWithin(from) == {from + k * TickStep : k \in 0 .. (context_ttl \div TickStep) - 1}

C19_ReadRestartsTheLifetime ==
    \A session_id \in allocated :
        /\ Live(session_id) =>
              LET g == get_session(World, session_id)
              IN  /\ g.found
                  /\ g.w.redis[Key(session_id)].expire_at = now + context_ttl
                  /\ \A later \in TimesWithin(now) :
                        get_session([g.w EXCEPT !.now = later], session_id).found
        /\ (Key(session_id) \in DOMAIN redis /\ now < touched[session_id] + context_ttl) =>
              Live(session_id)

\* a session that outlived the lifetime it was created with because it was read
C19_Witness ==
    \E session_id \in allocated :
        /\ Live(session_id)
        /\ ret.op = "get_session" /\ ret.session_id = session_id /\ ret.ok
        /\ ret.data = Session(session_id)
        /\ Session(session_id).metadata = EmptyDict
        /\ now >= Session(session_id).created_at + context_ttl

(***************************************************************************)
(* C20: a session that was neither read nor written for longer than the    *)
(* TTL cannot be told from one that was never created.  get_session does   *)
(* not find it, update_session, add_message_to_history, set_metadata and   *)
(* delete_session return False, get_history returns the empty list and     *)
(* get_metadata returns absent: each call returns what it returns for an   *)
(* id that was never allocated.                                            *)
(***************************************************************************)
\* the session was last created, read or written longer than a lifetime ago
Untended(session_id) ==
    /\ session_id \in allocated
    /\ Key(session_id) \in DOMAIN redis
    /\ now > touched[session_id] + context_ttl

C20_UntendedIsNeverCreated ==
    \A session_id \in allocated :
        Untended(session_id) =>
            /\ \A i \in StoreCalls, never \in AnyIds \ allocated :
                  Outcome(StoreCall(World, session_id, i)) = Outcome(StoreCall(World, never, i))
            /\ ~get_session(World, session_id).found
            /\ \A i \in Writers \cup {7} : ~StoreCall(World, session_id, i).ok
            /\ get_history(World, session_id).history = <<>>
            /\ \A key \in MetaKeys \cup {"last_intent"} :
                  get_metadata(World, session_id, key).value = None
            /\ \A i \in StoreCalls : ~LiveIn(StoreCall(World, session_id, i).w, session_id)

\* a read did not find a session with metadata that was left alone for too long
C20_Witness ==
    /\ ret.op = "get_session"
    /\ ~ret.ok
    /\ ret.session_id \in allocated
    /\ Untended(ret.session_id)
    /\ "name" \in DOMAIN Session(ret.session_id).metadata

(***************************************************************************)
(* C21: delete_session is idempotent and reports what it did.  It returns  *)
(* True exactly when a live session with that id existed at the call;      *)
(* after it the session is not found; a second delete_session of the same  *)
(* id returns False and changes nothing.                                   *)
(***************************************************************************)
\* what a reader of the store can find: the live keys and their values
Visible(w) ==
    [k \in {key \in DOMAIN w.redis : RedisExists(w, key)} |-> w.redis[k]]

C21_DeleteIsIdempotent ==
    /\ \A session_id \in AnyIds :
          LET first == delete_session(World, session_id)
              second == delete_session(first.w, session_id)
          IN  /\ first.ok = Live(session_id)
              /\ ~get_session(first.w, session_id).found
              /\ Others(first.w, session_id) = Others(World, session_id)
              /\ ~second.ok
              /\ Visible(second.w) = Visible(first.w)
              /\ second.w.allocated = first.w.allocated
    /\ ret.op = "delete_session" => /\ ~Live(ret.session_id)
                                    /\ ret.ok => ret.session_id \in allocated

\* a live session was deleted, and is gone
C21_Witness ==
    /\ ret.op = "delete_session"
    /\ ret.ok
    /\ ret.session_id \in allocated
    /\ Key(ret.session_id) \notin DOMAIN redis
    /\ now > 0

(***************************************************************************)
(* C22: set_metadata(s, k, v) on a live session writes one key.  After it  *)
(* get_metadata(s, k) returns v, which replaces an earlier value of k as a *)
(* whole (a stored dict is not merged into); every other metadata key      *)
(* keeps its value; the history, user_id, user_type and created_at of the  *)
(* session are unchanged.                                                  *)
(***************************************************************************)
\* parameters an earlier turn stored, and the ones a later turn stores over them
EarlierParameters == DictSet(DictSet(EmptyDict, "patient_id", "p1"), "patient_name", NameJane)
LaterParameters == DictSet(EmptyDict, "patient_id", "p2")

C22_SetMetadataWritesOneKey ==
    \A session_id \in allocated :
        Live(session_id) =>
            /\ \A key \in MetaKeys \cup {"last_intent"}, value \in MetaValues :
                  LET before == Session(session_id)
                      r == set_metadata(World, session_id, key, value)
                      after == SessionIn(r.w, session_id)
                      read == get_metadata(r.w, session_id, key)
                  IN  /\ r.ok
                      /\ read.value = value
                      /\ DOMAIN after.metadata = DOMAIN before.metadata \cup {key}
                      /\ \A other \in DOMAIN before.metadata \ {key} :
                            after.metadata[other] = before.metadata[other]
                      /\ after = [before EXCEPT !.metadata = after.metadata]
                      /\ Others(r.w, session_id) = Others(World, session_id)
            /\ LET first == set_metadata(World, session_id, "intent_parameters",
                                         EarlierParameters)
                   second == set_metadata(first.w, session_id, "intent_parameters",
                                          LaterParameters)
                   read == get_metadata(second.w, session_id, "intent_parameters")
               IN  /\ second.ok
                   /\ read.value = LaterParameters
                   /\ \A other \in DOMAIN Session(session_id).metadata :
                         SessionIn(second.w, session_id).metadata[other] =
                             Session(session_id).metadata[other]

\* the value of a key was written over
C22_Witness ==
    /\ ret.op = "set_metadata"
    /\ ret.ok
    /\ ret.value = "b"
    /\ Live(ret.session_id)
    /\ Session(ret.session_id).metadata = DictSet(EmptyDict, "name", "b")
    /\ now >= context_ttl

(***************************************************************************)
(* C23: get_metadata for a key that was never set on a live session gives  *)
(* an explicit absent result.  It differs from what get_metadata gives for *)
(* a key that was set, whatever the value stored under the key, a stored   *)
(* null included.                                                          *)
(***************************************************************************)
\* the values a caller stores under a metadata key: strings, and null
StoredValues == MetaValues \cup {None}

C23_AbsentIsDistinguishable ==
    \A session_id \in allocated :
        Live(session_id) =>
            \A key \in (MetaKeys \cup {"other"}) \ DOMAIN Session(session_id).metadata,
               value \in StoredValues :
                LET absent == get_metadata(World, session_id, key)
                    stored == set_metadata(World, session_id, key, value)
                    set == get_metadata(stored.w, session_id, key)
                IN  /\ stored.ok
                    /\ key \in DOMAIN SessionIn(stored.w, session_id).metadata
                    /\ absent.value # set.value

(***************************************************************************)
(* C24: create_session allocates an identifier that names no session that  *)
(* exists or ever existed in the store, also after a delete or an expiry,  *)
(* and the new session has an empty history, empty metadata and the        *)
(* user_id and user_type it was given.  create_session makes no check of   *)
(* its own: the identifier is new because uuid4 returns no identifier      *)
(* twice.                                                                  *)
(***************************************************************************)
\* the id was never handed out, and nothing in the store goes by it
NeverNamed(session_id) ==
    /\ NeverExisted(session_id)
    /\ Key(session_id) \notin DOMAIN redis
    /\ touched[session_id] = Never
    /\ appended[session_id] = <<>>

Origin(record) ==
    [user_id |-> record.user_id, user_type |-> record.user_type,
     created_at |-> record.created_at]

\* the session is live in both stores and has the same origin in both
SameOrigin(before, after, session_id) ==
    /\ LiveIn(after, session_id)
    /\ Origin(SessionIn(after, session_id)) = Origin(SessionIn(before, session_id))

\* what the collaborators of a turn on an existing session answer
C25_Environments ==
    Environments(C5_Classifications, {FindingBackend}, GenerationOutcomes, StoreOutcomes)

C25_OriginIsImmutable ==
    /\ [](\A session_id \in allocated :
            Live(session_id) =>
                /\ \A i \in {3, 4} :
                      SameOrigin(World, StoreCall(World, session_id, i).w, session_id)
                /\ \A message \in Messages, c \in Callers, env \in C25_Environments :
                      SameOrigin(World,
                                 RunTurn(World, RequestOf(message, session_id, c), env).w,
                                 session_id)
                /\ allocated # SessionIds =>
                      \A c \in Callers, metadata \in RequestMetadata :
                          LET r == create_session_route(World, uuid4(allocated), c.user_id,
                                                        c.user_type, metadata)
                          IN  /\ SameOrigin(World, r.w, session_id)
                              /\ Origin(SessionIn(r.w, r.session_id)) =
                                     [user_id |-> c.user_id, user_type |-> c.user_type,
                                      created_at |-> now])
    /\ [][\A session_id \in allocated :
            (Live(session_id) /\ LiveIn(WorldNext, session_id)) =>
                SameOrigin(World, WorldNext, session_id)]_vars

\* a session that was written to long after it was created
C25_Witness ==
    /\ ret.op = "set_metadata"
    /\ ret.ok
    /\ Live(ret.session_id)
    /\ Session(ret.session_id).created_at = 0
    /\ touched[ret.session_id] >= context_ttl
    /\ Origin(Session(ret.session_id)).user_type = "patient"

(***************************************************************************)
(* C26: name resolution follows the number of patients the search          *)
(* matched.  With no match the parameters of the classifier are left as    *)
(* they are; with exactly one match patient_id becomes that patient's id   *)
(* and patient_name his display name; with two or more matches patient_id  *)
(* is not set and all candidates are carried as matched_patients.          *)
(***************************************************************************)
\* the name search of the turn was made and returned
Searched(t) ==
    /\ t.pc \notin {"idle", "classify", "resolve"}
    /\ ~t.classifier.raised
    /\ "find_patient_by_name" \in CallsMade(t)
    /\ t.backend.patients.ok

\* the patients the search of the turn matched
Matches(t) == find_patient_by_name(extract_patient_name(t.message).name, t.backend.patients).value

C26_ResolutionFollowsMatches ==
    Searched(turn) =>
        LET classified == recognize_intent(turn.classifier).parameters
            matches == Matches(turn)
        IN  /\ Len(matches) = 0 => turn.parameters = classified
            /\ Len(matches) = 1 =>
                  /\ turn.parameters["patient_id"] = matches[1].id
                  /\ turn.parameters["patient_name"] =
                         JoinSpace(matches[1].first_name, matches[1].last_name)
                  /\ turn.parameters =
                         DictSet(DictSet(classified, "patient_id", matches[1].id),
                                 "patient_name", turn.parameters["patient_name"])
            /\ Len(matches) >= 2 =>
                  /\ "patient_id" \notin DOMAIN turn.parameters
                  /\ "patient_name" \notin DOMAIN turn.parameters
                  /\ turn.parameters = DictSet(classified, "matched_patients", matches)

\* a search that matched two patients picked neither
C26_Witness ==
    /\ Searched(turn)
    /\ Len(Matches(turn)) = 2
    /\ turn.parameters["matched_patients"] = <<PatientJane, PatientJane2>>
    /\ turn.pc = "persist"

(***************************************************************************)
(* C27: name resolution is attempted only in a doctor's turn and only when *)
(* the classifier returned no patient_id.  A patient's turn never calls    *)
(* the backend name search; and when the classifier returned a patient_id  *)
(* the search is not called and the parameters of the turn stay those of   *)
(* the classifier, with nothing replaced and nothing added.                *)
(***************************************************************************)
\* the turn is past its name resolution step
Resolved(t) ==
    /\ t.pc \notin {"idle", "classify", "resolve"}
    /\ ~t.classifier.raised

C27_ResolutionOnlyWhenNeeded ==
    /\ turn.pc # "idle" /\ turn.user_type = "patient" =>
           "find_patient_by_name" \notin CallsMade(turn)
    /\ Resolved(turn) /\ "patient_id" \in DOMAIN recognize_intent(turn.classifier).parameters =>
           /\ "find_patient_by_name" \notin CallsMade(turn)
           /\ turn.parameters = recognize_intent(turn.classifier).parameters
    /\ "find_patient_by_name" \in CallsMade(turn) =>
           /\ turn.user_type = "doctor"
           /\ ~turn.classifier.raised
           /\ "patient_id" \notin DOMAIN recognize_intent(turn.classifier).parameters

\* a doctor's message names a patient, the classifier gave the patient_id,
\* and the turn ended without a search
C27_Witness ==
    /\ turn.pc = "done"
    /\ turn.user_type = "doctor"
    /\ turn.message = MsgPatientJane
    /\ ~turn.classifier.raised
    /\ "patient_id" \in DOMAIN recognize_intent(turn.classifier).parameters
    /\ turn.parameters = recognize_intent(turn.classifier).parameters
    /\ "find_patient_by_name" \notin CallsMade(turn)


(***************************************************************************)
(* The scenario of a new doctor's session asking for a patient by name:    *)
(* one process_message call without a session id, classified as            *)
(* doctor_patient_info, followed through its steps.                        *)
(***************************************************************************)
\* "Show me Jane Doe's information"
MsgShowJanesInformation ==
    <<"S", "h", "o", "w", " ", "m", "e", " ", "J", "a", "n", "e", " ", "D", "o", "e", "'", "s", " ", "i", "n", "f", "o", "r", "m", "a", "t", "i", "o", "n">>
\* "Show me Jane Doe"
MsgShowJaneDoe ==
    <<"S", "h", "o", "w", " ", "m", "e", " ", "J", "a", "n", "e", " ", "D", "o", "e">>
ScenarioMessages == {MsgShowJanesInformation, MsgShowJaneDoe}

\* the doctor's call, without a session id
ScenarioRequests ==
    {[message |-> m, session_id |-> NoSessionId, user_id |-> "u1", user_type |-> "doctor"] :
        m \in ScenarioMessages}

\* the classifier answers doctor_patient_info, with or without a patient_id
ScenarioOutcomes ==
    {o \in ClassifierOutcomes :
        /\ ~o.raised
        /\ o.content.object
        /\ DictGet(o.content.result, "intent", "unknown") = "doctor_patient_info"}

\* lines 29-48, for the scenario's call
BeginScenario ==
    /\ turn.pc = "idle"
    /\ UNCHANGED clients
    /\ \E request \in ScenarioRequests :
        /\ NeedsCreate(World, request) => allocated # SessionIds
        /\ LET r == BeginTurn(World, turn, request)
           IN  /\ SetWorld(r.w)
               /\ turn' = r.t
               /\ ret' = [op |-> "process_message", session_id |-> request.session_id,
                          ok |-> ~r.t.pc = "failed"]

NextScenario ==
    \/ BeginScenario
    \/ Classify(ScenarioOutcomes)
    \/ ResolveName
    \/ Persist
    \/ Dispatch
    \/ Generate
    \/ Reply

SpecScenario == InitStore /\ [][NextScenario]_vars

\* the turn of the scenario ran to its end: a new doctor's session, the
\* classifier gave doctor_patient_info without a patient_id, and the backend
\* holds exactly one patient, Jane Doe, and answered every read
ScenarioDone(message) ==
    /\ turn.pc = "done"
    /\ turn.message = message
    /\ turn.user_type = "doctor"
    /\ turn.created # {}
    /\ turn.intent = "doctor_patient_info"
    /\ "patient_id" \notin DOMAIN recognize_intent(turn.classifier).parameters
    /\ turn.backend.patients = [ok |-> TRUE, patients |-> <<PatientJane>>]
    /\ \A f \in DOMAIN turn.backend : turn.backend[f].ok

\* the turn resolved the patient and emitted the one action that shows him
ResolvedToJane ==
    /\ "patient_id" \in DOMAIN turn.parameters
    /\ turn.parameters["patient_id"] = PatientJane.id
    /\ Len(turn.actions) = 1
    /\ turn.actions[1].type = "display_patient_info"

\* with the message "Show me Jane Doe" the scenario goes as described
ShowMeJaneDoeResolves == ScenarioDone(MsgShowJaneDoe) => ResolvedToJane

(***************************************************************************)
(* C28: in a new doctor's session the message "Show me Jane Doe's          *)
(* information", classified as doctor_patient_info without a patient_id,   *)
(* with exactly one backend patient matching Jane Doe, resolves patient_id *)
(* to that patient, and the turn emits exactly one action, of type         *)
(* display_patient_info.                                                   *)
(***************************************************************************)
C28_ShowMeResolvesThePatient == ScenarioDone(MsgShowJanesInformation) => ResolvedToJane

(***************************************************************************)
(* C29: in a doctor's turn classified as doctor_patient_info whose name    *)
(* search returned two or more patients, no patient_id is resolved, the    *)
(* turn emits exactly one action, of type display_matched_patients, whose  *)
(* data is the full list of candidates, and no read of a patient's record, *)
(* allergies or medications is made.                                       *)
(***************************************************************************)
\* the handler of the turn has run
Dispatched(t) ==
    \/ t.pc \in {"generate", "reply", "done"}
    \/ t.pc = "failed" /\ t.error = "GenerationError"

PatientReads == {"get_patient", "get_patient_allergies", "get_patient_medications"}

C29_SeveralMatchesAreOffered ==
    (/\ Dispatched(turn)
     /\ turn.user_type = "doctor"
     /\ turn.intent = "doctor_patient_info"
     /\ Searched(turn)
     /\ Len(Matches(turn)) >= 2)
    => /\ "patient_id" \notin DOMAIN turn.parameters
       /\ Len(turn.actions) = 1
       /\ turn.actions[1].type = "display_matched_patients"
       /\ turn.actions[1].data = Matches(turn)
       /\ CallsMade(turn) \cap PatientReads = {}

\* a finished turn offered the two patients named Jane Doe
C29_Witness ==
    /\ turn.pc = "done"
    /\ turn.user_type = "doctor"
    /\ turn.intent = "doctor_patient_info"
    /\ Searched(turn)
    /\ Matches(turn) = <<PatientJane, PatientJane2>>
    /\ turn.actions = <<Action("display_matched_patients", <<PatientJane, PatientJane2>>)>>

(***************************************************************************)
(* C30: a turn whose intent is a general intent (greeting, farewell,       *)
(* thanks, help, unknown) produces no action, for either role, and its     *)
(* facts differ between the roles only in the role marker and, for help,   *)
(* in the help topics of the role: the facts are user_type, and for help   *)
(* the role's help_topics, and nothing else.                               *)
(***************************************************************************)
\* the help topics of a role
HelpTopics(user_type) ==
    IF user_type = "doctor" THEN DoctorHelpTopics ELSE PatientHelpTopics

\* the facts of a turn without the two that depend on the role
RoleFree(context) ==
    [k \in DOMAIN context \ {"user_type", "help_topics"} |-> context[k]]

C30_GeneralIntentsOnlyTalk ==
    (Dispatched(turn) /\ turn.intent \in GeneralIntents)
    => /\ turn.actions = <<>>
       /\ RoleFree(turn.context) = EmptyDict
       /\ turn.context["user_type"] = turn.user_type
       /\ "help_topics" \in DOMAIN turn.context <=> turn.intent = "help"
       /\ turn.intent = "help" => turn.context["help_topics"] = HelpTopics(turn.user_type)

\* a doctor's help turn ended with the doctor's topics and no action
C30_Witness ==
    /\ turn.pc = "done"
    /\ turn.intent = "help"
    /\ turn.user_type = "doctor"
    /\ turn.context = DictSet(DictSet(EmptyDict, "user_type", "doctor"),
                              "help_topics", DoctorHelpTopics)
    /\ turn.actions = <<>>


(***************************************************************************)
(* A dialogue: process_message calls made one after the other, each        *)
(* followed through its steps, so that a later call finds the history and  *)
(* the metadata the earlier ones stored.                                   *)
(***************************************************************************)
\* the calls of a dialogue: a caller's message; the first call carries no
\* session id, the later ones the id the first was answered with
DialogueRequests(known) ==
    {[message |-> m, session_id |-> id, user_id |-> c.user_id, user_type |-> c.user_type] :
        m \in Messages, id \in (IF known = {} THEN {NoSessionId} ELSE known), c \in Callers}

\* the classifier answers thanks or doctor_patient_info, with or without a
\* patient_id, or its call raises
DialogueOutcomes ==
    {o \in ClassifierOutcomes :
        \/ o.raised
        \/ /\ o.content.object
           /\ DictGet(o.content.result, "intent", "unknown") \in {"thanks", "doctor_patient_info"}}

\* lines 29-48, for a call of the dialogue
BeginDialogue ==
    /\ turn.pc = "idle"
    /\ UNCHANGED clients
    /\ \E request \in DialogueRequests(allocated) :
        /\ NeedsCreate(World, request) => allocated # SessionIds
        /\ LET r == BeginTurn(World, turn, request)
           IN  /\ SetWorld(r.w)
               /\ turn' = r.t
               /\ ret' = [op |-> "process_message", session_id |-> request.session_id,
                          ok |-> ~r.t.pc = "failed"]

\* the route serves the next request once the call before it returned or raised
NextCall ==
    /\ turn.pc \in {"done", "failed"}
    /\ TotalAppended <= MaxEarlier
    /\ turn' = IdleTurn
    /\ UNCHANGED <<redis, now, allocated, appended, touched, ret, clients>>

NextDialogue ==
    \/ BeginDialogue
    \/ Classify(DialogueOutcomes)
    \/ ResolveName
    \/ Persist
    \/ Dispatch
    \/ Generate
    \/ Reply
    \/ NextCall

SpecDialogue == InitStore /\ [][NextDialogue]_vars


(***************************************************************************)
(* One process_message call on the empty store, followed through its       *)
(* steps, with everything the classifier, the backend and the generation   *)
(* call can answer.                                                        *)
(***************************************************************************)
NextCallAlone ==
    \/ Begin
    \/ Classify(ClassifierOutcomes)
    \/ ResolveName
    \/ Persist
    \/ Dispatch
    \/ Generate
    \/ Reply

SpecCallAlone == InitStore /\ [][NextCallAlone]_vars

(***************************************************************************)
(* C31: a patient's turn classified as thanks, or as any other general     *)
(* intent, makes no backend call between receiving the message and         *)
(* returning the response, and the response carries the classified intent  *)
(* and an empty list of actions.                                           *)
(***************************************************************************)
C31_PatientSmallTalkStaysLocal ==
    (/\ Resolved(turn)
     /\ turn.user_type = "patient"
     /\ recognize_intent(turn.classifier).intent \in GeneralIntents)
    => /\ CallsMade(turn) \cap BackendReads = {}
       /\ turn.backend = QuietBackend
       /\ turn.pc = "done" =>
             /\ Response(turn).intent = recognize_intent(turn.classifier).intent
             /\ Response(turn).actions = <<>>

\* a patient's "thanks" was answered without a backend call
C31_Witness ==
    /\ turn.pc = "done"
    /\ turn.user_type = "patient"
    /\ turn.message = MsgThanks
    /\ recognize_intent(turn.classifier).intent = "thanks"
    /\ Response(turn) = [text |-> ReplyText, session_id |-> turn.session_id,
                         intent |-> "thanks", actions |-> <<>>]
    /\ CallsMade(turn) \cap BackendReads = {}

(***************************************************************************)
(* C32: no call of the language model is retried.  In every turn the       *)
(* classification call is made at most once and the generation call at     *)
(* most once, whether they return or raise; a turn that ends with a        *)
(* response made each of them exactly once.                                *)
(***************************************************************************)
\* how many times the turn called fn
TimesCalled(t, fn) == Cardinality(Positions(t, {fn}))

C32_ModelCallsAreNotRetried ==
    /\ TimesCalled(turn, "recognize_intent") <= 1
    /\ TimesCalled(turn, "process_chat") <= 1
    /\ turn.pc = "done" =>
          /\ TimesCalled(turn, "recognize_intent") = 1
          /\ TimesCalled(turn, "process_chat") = 1
    /\ turn.error = "ClassificationError" =>
          /\ turn.pc = "failed"
          /\ TimesCalled(turn, "recognize_intent") = 1
          /\ TimesCalled(turn, "process_chat") = 0
    /\ turn.error = "GenerationError" =>
          /\ turn.pc = "failed"
          /\ TimesCalled(turn, "recognize_intent") = 1
          /\ TimesCalled(turn, "process_chat") = 1

\* the classification call raised: it was made once and the turn is over
C32_Witness ==
    /\ turn.pc = "failed"
    /\ turn.error = "ClassificationError"
    /\ turn.classifier.raised
    /\ TimesCalled(turn, "recognize_intent") = 1
    /\ TimesCalled(turn, "process_chat") = 0

(***************************************************************************)
(* C33: the generation request of a turn is built in this order: the       *)
(* instruction of the role first, then the stored history entries in their *)
(* stored order, then the rendering of the facts when there are facts, and *)
(* the current user input as the last message.                             *)
(***************************************************************************)
C33_RequestOrder ==
    turn.pc = "generate" =>
        LET request == turn.llm_messages
            stored == Session(turn.session_id).history
            n == Len(stored)
            facts == IF turn.context # EmptyDict THEN 1 ELSE 0
        IN  /\ Len(request) = 1 + n + facts + 1
            /\ request[1] = [kind |-> "system", prompt |-> SystemPrompt(turn.user_type)]
            /\ \A i \in 1 .. n :
                  /\ request[1 + i].kind = (IF stored[i].role = "user" THEN "human" ELSE "ai")
                  /\ request[1 + i].content = stored[i].content
            /\ facts = 1 => request[n + 2] = [kind |-> "context", facts |-> turn.context]
            /\ request[Len(request)] = [kind |-> "human", content |-> turn.message]

\* the second call of a dialogue replays the three stored entries, then the
\* facts, then the input
C33_Witness ==
    /\ turn.pc = "generate"
    /\ Len(Session(turn.session_id).history) = 3
    /\ turn.context # EmptyDict
    /\ Len(turn.llm_messages) = 6
    /\ turn.llm_messages[5].kind = "context"
    /\ turn.llm_messages[3].kind = "ai"

(***************************************************************************)
(* C38: the current inbound message appears exactly once in the generation *)
(* request of its turn: the history replayed to the generation call holds  *)
(* only the messages of earlier turns, and the current input is added      *)
(* once, as the last message.                                              *)
(***************************************************************************)
\* what was appended to the session of the turn before the turn began: all but
\* the inbound message, which lines 47-48 append
EarlierTurns(t) ==
    SubSeq(appended[t.session_id], 1, Len(appended[t.session_id]) - 1)

\* how many messages of the request are user input
Humans(request) == Cardinality({i \in DOMAIN request : request[i].kind = "human"})

\* how many entries of a history are user input
UserEntries(history) == Cardinality({i \in DOMAIN history : history[i].role = "user"})

C38_InputAppearsOnce ==
    turn.pc = "generate" =>
        /\ turn.history = EarlierTurns(turn)
        /\ Humans(turn.llm_messages) = UserEntries(EarlierTurns(turn)) + 1
        /\ turn.llm_messages[Len(turn.llm_messages)] =
               [kind |-> "human", content |-> turn.message]

(***************************************************************************)
(* C39: in every turn the handler emits at most one action, and an error   *)
(* fact and an action never occur together: whenever the facts passed to   *)
(* the generation call contain the key error, the list of actions of the   *)
(* turn is empty.                                                          *)
(***************************************************************************)
C39_OneActionOrAnError ==
    /\ Len(turn.actions) <= 1
    /\ "error" \in DOMAIN turn.context => turn.actions = <<>>
    /\ \A i \in DOMAIN turn.llm_messages :
          (turn.llm_messages[i].kind = "context"
           /\ "error" \in DOMAIN turn.llm_messages[i].facts) => turn.actions = <<>>

\* the test results were read, the patient's record was not: the turn goes on
\* with an error fact and no action
C39_Witness ==
    /\ turn.pc = "generate"
    /\ turn.intent = "doctor_test_results"
    /\ turn.backend.tests.ok
    /\ ~turn.backend.patient.ok
    /\ "get_patient" \in CallsMade(turn)
    /\ "error" \in DOMAIN turn.context
    /\ turn.actions = <<>>


(***************************************************************************)
(* Concurrent clients of the store.  ContextManager holds no lock and      *)
(* every method is a sequence of Redis commands, so when two requests are  *)
(* served at the same time the commands of their calls interleave: the     *)
(* step of this specification is one Redis command of one client.          *)
(***************************************************************************)
\* what a client does: one add_message_to_history, one delete_session, or the
\* store calls of one process_message turn (lines 36, 48, 70, 71, 138, 76), with
\* texts, intent and parameters that tell the two clients apart
Programs(c, session_id) ==
    LET add(role, n) == [fn |-> "add_message_to_history", session_id |-> session_id,
                         role |-> role, content |-> <<c, n>>]
        meta(key, value) == [fn |-> "set_metadata", session_id |-> session_id,
                             key |-> key, value |-> value]
        intent == IF c = "A" THEN "thanks" ELSE "help"
        parameters == IF c = "A" THEN EmptyDict ELSE DictSet(EmptyDict, "patient_id", "p1")
    IN  {<<add("user", "0")>>,
         <<[fn |-> "delete_session", session_id |-> session_id]>>,
         <<[fn |-> "get_session", session_id |-> session_id],
           add("user", "1"),
           meta("last_intent", intent),
           meta("intent_parameters", parameters),
           [fn |-> "get_history", session_id |-> session_id],
           add("assistant", "2")>>}

\* the next Redis command of the call a client is in.  get_session is GET (line
\* 44) and EXPIRE (line 49); update_session is EXISTS (line 56) and SETEX (line
\* 60); add_message_to_history and set_metadata are get_session, the change of
\* the copy that was read, and update_session; delete_session is DEL.  A turn
\* whose session is not found raises (the request carries no identity).
RunCommand(w, client) ==
    LET call == Head(client.todo)
        key == Key(call.session_id)
        Return(w1, ok) ==
            [w |-> w1,
             c |-> [client EXCEPT !.todo = Tail(@), !.pc = "call", !.data = NoSession,
                                  !.returned = Append(@, [fn |-> call.fn, session_id |-> call.session_id,
                                                         ok |-> ok])]]
        Raise(w1) ==
            [w |-> w1,
             c |-> [client EXCEPT !.todo = <<>>, !.pc = "call", !.data = NoSession,
                                  !.returned = Append(@, [fn |-> call.fn, session_id |-> call.session_id,
                                                         ok |-> FALSE])]]
        Changed(data) ==
            IF call.fn = "add_message_to_history"
            THEN [data EXCEPT !.history =
                     TrimHistory(Append(@, [role |-> call.role, content |-> call.content,
                                            timestamp |-> w.now]))]
            ELSE [data EXCEPT !.metadata = DictSet(@, call.key, call.value)]
        read == [RedisExpire(w, key, context_ttl) EXCEPT !.touched[call.session_id] = w.now]
        written == [RedisSetex(w, key, context_ttl, json_dumps(client.data))
                       EXCEPT !.touched[call.session_id] = w.now]
    IN  CASE client.pc = "call" /\ call.fn = "delete_session" ->
                LET d == RedisDelete(w, key) IN Return(d.w, d.n > 0)
          [] client.pc = "call" /\ call.fn # "delete_session" ->
                IF RedisExists(w, key)
                THEN [w |-> w,
                      c |-> [client EXCEPT !.pc = "expire",
                                           !.data = json_loads(w.redis[key].value)]]
                ELSE IF call.fn = "get_session" THEN Raise(w) ELSE Return(w, FALSE)
          [] client.pc = "expire" ->
                IF call.fn \in {"get_session", "get_history"}
                THEN Return(read, TRUE)
                ELSE [w |-> read,
                      c |-> [client EXCEPT !.pc = "exists", !.data = Changed(@)]]
          [] client.pc = "exists" ->
                IF RedisExists(w, key)
                THEN [w |-> w, c |-> [client EXCEPT !.pc = "setex"]]
                ELSE Return(w, FALSE)
          [] client.pc = "setex" ->
                Return(IF call.fn = "add_message_to_history"
                       THEN [written EXCEPT !.appended[call.session_id] =
                                Append(@, client.data.history[Len(client.data.history)])]
                       ELSE written,
                       TRUE)

\* a request arrives: the client begins its calls on a session
StartClient ==
    /\ \E c \in Clients, session_id \in allocated :
        /\ ~clients[c].began
        /\ \E program \in Programs(c, session_id) :
              clients' = [clients EXCEPT ![c].todo = program, ![c].began = TRUE]
    /\ UNCHANGED <<redis, now, allocated, appended, touched, ret, turn>>

\* a client sends its next command to Redis
Command ==
    /\ \E c \in Clients :
        /\ clients[c].todo # <<>>
        /\ LET r == RunCommand(World, clients[c])
           IN  /\ SetWorld(r.w)
               /\ clients' = [clients EXCEPT ![c] = r.c]
    /\ UNCHANGED <<ret, turn>>

\* two sessions of a doctor; the first holds the messages of earlier turns: none,
\* one short of the cap, or as many as the cap
InitRace ==
    /\ \E n \in EarlierLengths :
        LET empty == [redis |-> EmptyDict, now |-> 0, allocated |-> {},
                      appended |-> [s \in SessionIds |-> <<>>],
                      touched |-> [s \in SessionIds |-> Never]]
            first == create_session(empty, uuid4({}), "u1", "doctor")
            second == create_session(first.w, uuid4(first.w.allocated), "u1", "doctor")
            filled == Earlier(second.w, first.session_id, n)
        IN  /\ redis = filled.redis
            /\ allocated = filled.allocated
            /\ touched = filled.touched
            /\ appended = [filled.appended EXCEPT ![first.session_id] =
                              SessionIn(filled, first.session_id).history]
    /\ now = 0
    /\ ret = [op |-> "none", session_id |-> NoSessionId, ok |-> TRUE]
    /\ turn = IdleTurn
    /\ clients = NoClients

SpecRace == InitRace /\ [][StartClient \/ Command]_vars

(***************************************************************************)
(* C34: two concurrent requests on the same session race on the unlocked   *)
(* read-modify-write of the session record, and the last write wins: the   *)
(* SETEX of a call stores the copy the call read and changed, whatever     *)
(* another call wrote in between, and there is an interleaving of two      *)
(* add_message_to_history calls on a session below the cap after which the *)
(* history holds only one of the two messages (the witness).               *)
(***************************************************************************)
\* client c is in the one call add_message_to_history, or has returned from it
Adds(c, session_id) ==
    /\ clients[c].began
    /\ LET all == clients[c].todo
                  \o [i \in 1 .. Len(clients[c].returned) |-> clients[c].returned[i]]
       IN  /\ Len(all) = 1
           /\ all[1].fn = "add_message_to_history"
           /\ all[1].session_id = session_id

\* client c has returned from all its calls, each with success
Succeeded(c) ==
    /\ clients[c].began
    /\ clients[c].todo = <<>>
    /\ \A i \in DOMAIN clients[c].returned : clients[c].returned[i].ok

C34_LastWriteWins ==
    /\ [][\A c \in Clients :
            (clients[c].todo # <<>> /\ clients[c].pc = "setex" /\ clients'[c] # clients[c])
            => LET key == Key(Head(clients[c].todo).session_id)
               IN  /\ key \in DOMAIN redis'
                   /\ json_loads(redis'[key].value) = clients[c].data]_vars
    /\ [](\A session_id \in allocated :
            (/\ \A c \in Clients : Adds(c, session_id) /\ Succeeded(c)
             /\ Len(appended[session_id]) <= HistoryLimit)
            => /\ Live(session_id)
               /\ Len(appended[session_id]) - Len(Session(session_id).history) \in {0, 1}
               /\ Session(session_id).history[Len(Session(session_id).history)] =
                      appended[session_id][Len(appended[session_id])])

\* both calls returned True and the history holds one of the two messages
C34_Witness ==
    \E session_id \in allocated :
        /\ \A c \in Clients : Adds(c, session_id) /\ Succeeded(c)
        /\ Len(appended[session_id]) = 2
        /\ Live(session_id)
        /\ Len(Session(session_id).history) = 1
        /\ Session(session_id).history[1] = appended[session_id][2]

(***************************************************************************)
(* C35: under every interleaving of concurrent turns and store calls on    *)
(* the sessions, the history of each session has at most 20 entries and    *)
(* every entry of it is a message that was appended to that same session,  *)
(* no more often than it was appended there.                               *)
(***************************************************************************)
\* how often the entry occurs in the sequence
Occurrences(entry, entries) == Cardinality({i \in DOMAIN entries : entries[i] = entry})

\* every client that began has returned from its calls
AllReturned == \A c \in Clients : clients[c].began /\ clients[c].todo = <<>>

C35_HistoryHoldsOnlyItsAppends ==
    \A session_id \in allocated :
        Live(session_id) =>
            LET history == Session(session_id).history
            IN  /\ Len(history) <= HistoryLimit
                /\ \A i \in DOMAIN history :
                      /\ Occurrences(history[i], appended[session_id]) > 0
                      /\ Occurrences(history[i], history)
                            <= Occurrences(history[i], appended[session_id])

\* two concurrent turns on a session at the cap have finished: more messages
\* were appended than the history holds
C35_Witness ==
    \E session_id \in allocated :
        /\ AllReturned
        /\ \A c \in Clients : Len(clients[c].returned) = 6
                              /\ clients[c].returned[1].session_id = session_id
        /\ Live(session_id)
        /\ Len(Session(session_id).history) = HistoryLimit
        /\ Len(appended[session_id]) > HistoryLimit + 2

(***************************************************************************)
(* C36: a session removed by delete_session is never brought back by a     *)
(* write that was already in flight: once a delete_session of the id has   *)
(* returned True and every client has returned from its calls, the id is   *)
(* not found.                                                              *)
(***************************************************************************)
\* some client's delete_session of the session returned True
DeleteReturnedTrue(session_id) ==
    \E c \in Clients :
        \E i \in DOMAIN clients[c].returned :
            /\ clients[c].returned[i].fn = "delete_session"
            /\ clients[c].returned[i].session_id = session_id
            /\ clients[c].returned[i].ok

C36_DeletedStaysDeleted ==
    \A session_id \in allocated :
        (DeleteReturnedTrue(session_id) /\ AllReturned) => ~Live(session_id)

(***************************************************************************)
(* C37: the metadata pair is never torn and metadata writes never undo     *)
(* history: after two concurrent turns on the same session have finished,  *)
(* the stored last_intent and intent_parameters were written by the same   *)
(* turn, and no set_metadata removes a history entry from the stored       *)
(* session.                                                                *)
(***************************************************************************)
\* client c ran the store calls of a turn on the session, all with success
TurnDone(c, session_id) ==
    /\ Succeeded(c)
    /\ Len(clients[c].returned) = 6
    /\ \A i \in DOMAIN clients[c].returned : clients[c].returned[i].session_id = session_id

\* the pair of metadata values the turn of client c writes
PairOf(c) ==
    LET program == CHOOSE p \in Programs(c, 1) : Len(p) = 6
    IN  [last_intent |-> program[3].value, intent_parameters |-> program[4].value]

\* after both turns, the stored pair is the pair of one of them
PairIsWhole ==
    \A session_id \in allocated :
        ((\A c \in Clients : TurnDone(c, session_id)) /\ Live(session_id))
        => \E c \in Clients :
              /\ Session(session_id).metadata["last_intent"] = PairOf(c).last_intent
              /\ Session(session_id).metadata["intent_parameters"]
                    = PairOf(c).intent_parameters

\* the SETEX of a set_metadata keeps every history entry the session holds
MetadataWriteKeepsHistory ==
    \A c \in Clients :
        (/\ clients[c].todo # <<>>
         /\ clients[c].pc = "setex"
         /\ Head(clients[c].todo).fn = "set_metadata"
         /\ clients'[c] # clients[c])
        => LET key == Key(Head(clients[c].todo).session_id)
           IN  key \in DOMAIN redis
               => /\ key \in DOMAIN redis'
                  /\ \A i \in DOMAIN json_loads(redis[key].value).history :
                        Occurrences(json_loads(redis[key].value).history[i],
                                    json_loads(redis'[key].value).history) > 0

C37_MetadataPairIsWhole == [](PairIsWhole) /\ [][MetadataWriteKeepsHistory]_vars

====
